---- MODULE Spec2Model ----
(***************************************************************************)
(* BloomWell analytics engine (src/analyser.js, class WellnessAnalyzer).   *)
(*                                                                         *)
(* The analyzer's methods are pure functions of their arguments; they are  *)
(* operators here, and every action of the state machine is one call of a  *)
(* method on the series held by the data source.                           *)
(*                                                                         *)
(* Representation of JavaScript values:                                    *)
(*   - strings are TLA+ strings;                                           *)
(*   - null, undefined and NaN are the tagged records Null, Undefined, NaN;*)
(*   - a number that the code rounds to d decimals is the integer          *)
(*     value * 10^d (average, volatility: d = 2; rates: d = 3;             *)
(*     avg_duration: d = 1; trend_slope: d = 4), arithmetic being exact;   *)
(*   - an unrounded quotient is the reduced fraction [num, den];           *)
(*   - an array argument that may be null is Array(items) or Null;         *)
(*   - a field that may hold a number or null/NaN holds Number(n) or the   *)
(*     tagged record; a field absent from an object is absent from the     *)
(*     record's DOMAIN;                                                    *)
(*   - an object used as a keyed map is [keys, val]: keys in the order     *)
(*     Object.keys yields them, val the mapping.                           *)
(***************************************************************************)
EXTENDS Integers, Sequences, FiniteSets, TLC

(***************************************************************************)
(* Bounds of the model.                                                    *)
(***************************************************************************)
MaxMoodDays == 5
MaxSparseDays == 3
MaxReorderDays == 4
MaxHabitDays == 6
MaxHabitEntries == 2
MaxCount == 1
MaxSessions == 3
MaxMixedSessions == 3
MaxTimerStarts == 3

(***************************************************************************)
(* JavaScript values and arithmetic.                                       *)
(***************************************************************************)
Null == [type |-> "null"]
Undefined == [type |-> "undefined"]
NaN == [type |-> "NaN"]
Number(n) == [type |-> "number", val |-> n]
\* A string passed where the callee also accepts null or undefined.
String(s) == [type |-> "string", val |-> s]
\* An array passed where the callee also accepts null or undefined.
Array(items) == [type |-> "array", items |-> items]
Missing(v) == v = Null \/ v = Undefined

\* Whether object o has property f.
Has(o, f) == f \in DOMAIN o

RECURSIVE GCD(_, _)
GCD(a, b) == IF b = 0 THEN a ELSE GCD(b, a % b)

Abs(a) == IF a < 0 THEN -a ELSE a

\* The quotient n / d (d > 0) as a reduced fraction.
Rat(n, d) ==
    LET g == GCD(Abs(n), d)
    IN  [num |-> n \div g, den |-> d \div g]

RatGt(a, b) == a.num * b.den > b.num * a.den
RatLt(a, b) == a.num * b.den < b.num * a.den

\* Math.round(n / d) for d > 0: the nearest integer, halves rounded up.
Round(n, d) == (2 * n + d) \div (2 * d)

\* Math.round(Math.sqrt(n / (d * d)) * 100) for n >= 0, d > 0, k <= limit.
RoundSqrt100(n, d, limit) ==
    CHOOSE k \in 0..limit :
        /\ (k = 0 \/ (2 * k - 1) * (2 * k - 1) * d * d <= 40000 * n)
        /\ (2 * k + 1) * (2 * k + 1) * d * d > 40000 * n

RECURSIVE SumOver(_, _)
\* reduce((sum, e) => sum + f(e), 0) where val[i] = f(entry i).
SumOver(val, n) == IF n = 0 THEN 0 ELSE SumOver(val, n - 1) + val[n]

\* An object used as a map, with its keys in Object.keys order.
EmptyMap == [keys |-> <<>>, val |-> <<>>]

SeqToSet(s) == {s[i] : i \in DOMAIN s}

\* The distinct values of field-sequence ks in order of first appearance:
\* the key order of an object filled by `if (!o[k]) o[k] = ...` in a forEach.
RECURSIVE InsertionOrder(_)
InsertionOrder(ks) ==
    IF ks = <<>> THEN <<>>
    ELSE LET front == InsertionOrder(SubSeq(ks, 1, Len(ks) - 1))
             last  == ks[Len(ks)]
         IN  IF last \in SeqToSet(front) THEN front ELSE Append(front, last)

(***************************************************************************)
(* String constants of the program.                                        *)
(***************************************************************************)
MinMoodLevel == 1
MaxMoodLevel == 5
Weekdays ==
    <<"Sunday", "Monday", "Tuesday", "Wednesday", "Thursday", "Friday", "Saturday">>

\* entry.date.toLocaleDateString('en', { weekday: 'long' }); a date is a day
\* number, day 0 being a Sunday.
Weekday(date) == Weekdays[(date % 7) + 1]

(***************************************************************************)
(* calculateTrend: least-squares slope over points {x, y}.                 *)
(***************************************************************************)
\* Variant: the numerator n * sumXY - sumY, the factor sumX dropped.
calculateTrendNoSumX(data) ==
    LET n     == Len(data)
        sumX  == SumOver([i \in 1..n |-> data[i].x], n)
        sumY  == SumOver([i \in 1..n |-> data[i].y], n)
        sumXY == SumOver([i \in 1..n |-> data[i].x * data[i].y], n)
        sumXX == SumOver([i \in 1..n |-> data[i].x * data[i].x], n)
        numer == n * sumXY - sumY
        denom == n * sumXX - sumX * sumX
    IN  IF denom = 0 THEN NaN
        ELSE [type |-> "number", num |-> numer, den |-> denom]

calculateTrend(data) ==
    LET n     == Len(data)
        sumX  == SumOver([i \in 1..n |-> data[i].x], n)
        sumY  == SumOver([i \in 1..n |-> data[i].y], n)
        sumXY == SumOver([i \in 1..n |-> data[i].x * data[i].y], n)
        sumXX == SumOver([i \in 1..n |-> data[i].x * data[i].x], n)
        numer == n * sumXY - sumX * sumY
        denom == n * sumXX - sumX * sumX
    IN  \* 0 / 0 is NaN; a non-zero numerator over 0 would be +-Infinity and
        \* is kept as the unreduced fraction.
        IF denom = 0
        THEN IF numer = 0 THEN NaN ELSE [type |-> "number", num |-> numer, den |-> 0]
        ELSE IF denom > 0
             THEN [type |-> "number", num |-> numer, den |-> denom]
             ELSE [type |-> "number", num |-> -numer, den |-> -denom]

\* Variant: the threshold 0.5 in place of 0.05.
TrendAboveHalf(trend) == trend # NaN /\ 2 * trend.num > trend.den

\* trend > 0.05 and trend < -0.05; every comparison with NaN is false.
TrendAbove(trend) == trend # NaN /\ 20 * trend.num > trend.den
TrendBelow(trend) == trend # NaN /\ 20 * trend.num < -trend.den

\* The key a reduce((a, b) => val[a] > val[b] ? a : b) ends with.
RECURSIVE ReduceGreater(_, _)
ReduceGreater(keys, val) ==
    IF Len(keys) = 1 THEN keys[1]
    ELSE LET a == ReduceGreater(SubSeq(keys, 1, Len(keys) - 1), val)
             b == keys[Len(keys)]
         IN  IF RatGt(val[a], val[b]) THEN a ELSE b

\* The key a reduce((a, b) => val[a] < val[b] ? a : b) ends with.
RECURSIVE ReduceLess(_, _)
ReduceLess(keys, val) ==
    IF Len(keys) = 1 THEN keys[1]
    ELSE LET a == ReduceLess(SubSeq(keys, 1, Len(keys) - 1), val)
             b == keys[Len(keys)]
         IN  IF RatLt(val[a], val[b]) THEN a ELSE b

(***************************************************************************)
(* calculateMoodInsights.  A mood entry is {date, mood_level}; energy_level*)
(* and notes are read by no method.                                        *)
(***************************************************************************)
\* Variant: a reduce without initial value that counts the first entry twice.
MoodAverageFirstTwice(moodData) ==
    LET n == Len(moodData)
    IN  Round(100 * (moodData[1].mood_level
                        + SumOver([i \in 1..n |-> moodData[i].mood_level], n)), n)

\* Math.round(avgMood * 100), avgMood being the sum of mood_level / length.
MoodAverage(moodData) ==
    LET n == Len(moodData)
    IN  Round(100 * SumOver([i \in 1..n |-> moodData[i].mood_level], n), n)

\* Variant: the calendar date as x.
TrendPointsByDate(moodData) ==
    [i \in DOMAIN moodData |-> [x |-> moodData[i].date, y |-> moodData[i].mood_level]]

\* moodData.map((entry, index) => ({ x: index, y: entry.mood_level }))
TrendPoints(moodData) ==
    [i \in DOMAIN moodData |-> [x |-> i - 1, y |-> moodData[i].mood_level]]

\* Math.round(trend * 10000), NaN staying NaN.
TrendSlope(trend) ==
    IF trend = NaN THEN NaN ELSE Number(Round(10000 * trend.num, trend.den))

calculateMoodInsights(moodArg) ==
    IF Missing(moodArg) \/ moodArg.items = <<>>
    THEN [average |-> 0, trend |-> "no_data", volatility |-> 0]
    ELSE
    LET moodData == moodArg.items
        n       == Len(moodData)
        sum     == SumOver([i \in 1..n |-> moodData[i].mood_level], n)
        sumSq   == SumOver([i \in 1..n |->
                        moodData[i].mood_level * moodData[i].mood_level], n)
        trend   == calculateTrend(TrendPoints(moodData))
        \* variance = sum((level - sum/n)^2) / n = (n*sumSq - sum^2) / n^2
        volatility100 == RoundSqrt100(n * sumSq - sum * sum, n,
                                      100 * (MaxMoodLevel - MinMoodLevel))
        days    == InsertionOrder([i \in 1..n |-> Weekday(moodData[i].date)])
        weekdayAverages ==
            [day \in SeqToSet(days) |->
                LET idx == {i \in 1..n : Weekday(moodData[i].date) = day}
                    tot == SumOver([i \in 1..n |->
                              IF i \in idx THEN moodData[i].mood_level ELSE 0], n)
                IN  Rat(tot, Cardinality(idx))]
    IN  [average          |-> MoodAverage(moodData),
         trend            |-> IF TrendAbove(trend) THEN "improving"
                              ELSE IF TrendBelow(trend) THEN "declining"
                              ELSE "stable",
         trend_slope      |-> TrendSlope(trend),
         volatility       |-> volatility100,
         best_weekday     |-> ReduceGreater(days, weekdayAverages),
         worst_weekday    |-> ReduceLess(days, weekdayAverages),
         weekday_patterns |-> [keys |-> days, val |-> weekdayAverages]]

(***************************************************************************)
(* analyzeHabitPatterns.  A habit entry is {name, date, completed, target}.*)
(***************************************************************************)
Met(h) == h.completed >= h.target

\* Variant: the group left in input order.
SortByDateSkipped(s) == s

\* Array.prototype.sort((a, b) => a.date - b.date): ascending by date, entries
\* of equal date keeping their order (the sort is stable).
RECURSIVE SortByDate(_)
SortByDate(s) ==
    IF s = <<>> THEN <<>>
    ELSE LET front == SortByDate(SubSeq(s, 1, Len(s) - 1))
             x     == s[Len(s)]
             k     == Cardinality({i \in DOMAIN front : front[i].date <= x.date})
         IN  SubSeq(front, 1, k) \o <<x>> \o SubSeq(front, k + 1, Len(front))

\* Variant: every entry pushed to every group.
GroupOfAll(habitData, name) == habitData

\* habitGroups[name] after the grouping forEach: the entries of that name in
\* input order.
RECURSIVE GroupOf(_, _)
GroupOf(habitData, name) ==
    IF habitData = <<>> THEN <<>>
    ELSE IF habitData[1].name = name
         THEN <<habitData[1]>> \o GroupOf(Tail(habitData), name)
         ELSE GroupOf(Tail(habitData), name)

\* The backward loop counting the trailing entries with completed >= target.
RECURSIVE CurrentStreak(_)
CurrentStreak(habits) ==
    IF habits = <<>> THEN 0
    ELSE IF Met(habits[Len(habits)])
         THEN 1 + CurrentStreak(SubSeq(habits, 1, Len(habits) - 1))
         ELSE 0

\* habits.filter(h => h.completed >= h.target).length / habits.length, * 1000
CompletionRate(habits) ==
    Round(1000 * Cardinality({i \in DOMAIN habits : Met(habits[i])}), Len(habits))

\* Variant: the share of entries that met their target.
OverallCompletionByEntries(habitData) ==
    Round(1000 * Cardinality({i \in DOMAIN habitData :
                                 habitData[i].completed >= habitData[i].target}),
          Len(habitData))

\* totalTarget > 0 ? totalCompleted / totalTarget : 0, rounded, * 1000
OverallCompletion(habitData) ==
    LET n              == Len(habitData)
        totalCompleted == SumOver([i \in 1..n |-> habitData[i].completed], n)
        totalTarget    == SumOver([i \in 1..n |-> habitData[i].target], n)
    IN  IF totalTarget > 0 THEN Round(1000 * totalCompleted, totalTarget) ELSE 0

analyzeHabitPatterns(habitArg) ==
    IF Missing(habitArg) \/ habitArg.items = <<>>
    THEN [completion_rate |-> 0, streaks |-> EmptyMap, patterns |-> EmptyMap]
    ELSE
    LET habitData == habitArg.items
        names     == InsertionOrder([i \in DOMAIN habitData |-> habitData[i].name])
        habits    == [name \in SeqToSet(names) |-> SortByDate(GroupOf(habitData, name))]
        completionRates == [name \in SeqToSet(names) |-> CompletionRate(habits[name])]
        streaks   == [name \in SeqToSet(names) |-> CurrentStreak(habits[name])]
        asRat     == [name \in SeqToSet(names) |-> Rat(completionRates[name], 1)]
    IN  [overall_completion_rate     |-> OverallCompletion(habitData),
         individual_completion_rates |-> [keys |-> names, val |-> completionRates],
         current_streaks             |-> [keys |-> names, val |-> streaks],
         most_consistent_habit       |-> ReduceGreater(names, asRat),
         needs_attention             |-> ReduceLess(names, asRat)]

(***************************************************************************)
(* analyzeStudyPerformance.  A session is {subject, duration_minutes,      *)
(* completed, hour}, hour being timestamp.getHours().                      *)
(***************************************************************************)
\* The elements of a set of integers in ascending order: Object.keys of an
\* object whose keys are integers.
RECURSIVE Ascending(_)
Ascending(S) ==
    IF S = {} THEN <<>>
    ELSE LET m == CHOOSE x \in S : \A y \in S : x <= y
         IN  <<m>> \o Ascending(S \ {m})

\* Variant: the duration added only for a completed session.
BucketOfCompleted(studyData, idx) ==
    LET n == Len(studyData)
    IN  [sessions      |-> Cardinality(idx),
         completed     |-> Cardinality({i \in idx : studyData[i].completed}),
         totalDuration |-> SumOver([i \in 1..n |->
                              IF i \in idx /\ studyData[i].completed
                              THEN studyData[i].duration_minutes ELSE 0], n)]

\* The {sessions, completed, totalDuration} bucket of the sessions in idx.
Bucket(studyData, idx) ==
    LET n == Len(studyData)
    IN  [sessions      |-> Cardinality(idx),
         completed     |-> Cardinality({i \in idx : studyData[i].completed}),
         totalDuration |-> SumOver([i \in 1..n |->
                              IF i \in idx THEN studyData[i].duration_minutes ELSE 0], n)]

\* The loop over Object.keys(hourlyData): state {bestHour, bestCompletionRate}
\* after the hours in the list, starting from {null, 0}.
RECURSIVE BestHour(_, _)
BestHour(hours, hourlyData) ==
    IF hours = <<>> THEN [bestHour |-> Null, bestCompletionRate |-> Rat(0, 1)]
    ELSE LET prev == BestHour(SubSeq(hours, 1, Len(hours) - 1), hourlyData)
             hour == hours[Len(hours)]
             data == hourlyData[hour]
             rate == Rat(data.completed, data.sessions)
         IN  IF RatGt(rate, prev.bestCompletionRate)
             THEN [bestHour |-> Number(hour), bestCompletionRate |-> rate]
             ELSE prev

analyzeStudyPerformance(studyArg) ==
    IF Missing(studyArg) \/ studyArg.items = <<>>
    THEN [total_sessions |-> 0, avg_duration |-> 0, efficiency |-> 0]
    ELSE
    LET studyData     == studyArg.items
        totalSessions == Len(studyData)
        totalMinutes  == SumOver([i \in 1..totalSessions |->
                             studyData[i].duration_minutes], totalSessions)
        completedSessions ==
            Cardinality({i \in DOMAIN studyData : studyData[i].completed})
        hours      == Ascending({studyData[i].hour : i \in DOMAIN studyData})
        hourlyData == [hour \in SeqToSet(hours) |->
                          Bucket(studyData, {i \in DOMAIN studyData :
                                                 studyData[i].hour = hour})]
        subjects    == InsertionOrder([i \in DOMAIN studyData |-> studyData[i].subject])
        subjectData == [subject \in SeqToSet(subjects) |->
                          Bucket(studyData, {i \in DOMAIN studyData :
                                                 studyData[i].subject = subject})]
    IN  [total_sessions      |-> totalSessions,
         total_minutes       |-> totalMinutes,
         avg_duration        |-> Round(10 * totalMinutes, totalSessions),
         completion_rate     |-> Round(1000 * completedSessions, totalSessions),
         best_study_hour     |-> BestHour(hours, hourlyData).bestHour,
         hourly_patterns     |-> [keys |-> hours, val |-> hourlyData],
         subject_performance |-> [keys |-> subjects, val |-> subjectData]]

(***************************************************************************)
(* generateRecommendations.                                                *)
(***************************************************************************)
MsgDeclining ==
    "Your mood has been declining recently. Consider incorporating more mindfulness practices or reaching out for support."
MsgVolatility ==
    "Your mood shows high variability. Maintaining consistent sleep and exercise routines may help stabilize your emotional well-being."
MsgCompletion ==
    "Your habit completion rate is below 70%. Consider reducing the number of habits or making them smaller and more achievable."
MsgAttention(habit) ==
    "Your '" \o habit \o "' habit needs attention. Consider pairing it with an existing strong habit or adjusting the difficulty."
MsgStudy(hour) ==
    "You perform best during " \o ToString(hour) \o ":00. Try scheduling more important study sessions during this time."

\* if (insights.<section>): an object is truthy, null and undefined are not.
Present(section) == ~Missing(section)

\* Variant: (overall_completion_rate || 0) < 0.7, a missing rate read as 0.
LowCompletionDefaultZero(habits) ==
    ~Has(habits, "overall_completion_rate") \/ habits.overall_completion_rate < 700

\* insights.habits.overall_completion_rate < 0.7 (undefined < 0.7 is false)
LowCompletion(habits) ==
    Has(habits, "overall_completion_rate") /\ habits.overall_completion_rate < 700

\* Variant: the suggestion only for a habit whose rate is below 1.
NeedsAttentionBelowFull(habits) ==
    /\ Has(habits, "needs_attention")
    /\ habits.needs_attention # ""
    /\ habits.individual_completion_rates.val[habits.needs_attention] < 1000

\* if (insights.habits.needs_attention): a non-empty string is truthy.
NeedsAttention(habits) ==
    Has(habits, "needs_attention") /\ habits.needs_attention # ""

\* if (best_study_hour && completion_rate < 0.8): undefined, null and the
\* number 0 are falsy.
StudyRule(study) ==
    /\ Has(study, "best_study_hour")
    /\ study.best_study_hour # Null
    /\ study.best_study_hour.val # 0
    /\ Has(study, "completion_rate")
    /\ study.completion_rate < 800

generateRecommendations(insights) ==
    LET mood   == insights.mood
        habits == insights.habits
        study  == insights.study
        r1 == IF Present(mood) /\ mood.trend = "declining"
              THEN <<MsgDeclining>> ELSE <<>>
        r2 == IF Present(mood) /\ mood.volatility > 150
              THEN Append(r1, MsgVolatility) ELSE r1
        r3 == IF Present(habits) /\ LowCompletion(habits)
              THEN Append(r2, MsgCompletion) ELSE r2
        r4 == IF Present(habits) /\ NeedsAttention(habits)
              THEN Append(r3, MsgAttention(habits.needs_attention)) ELSE r3
        r5 == IF Present(study) /\ StudyRule(study)
              THEN Append(r4, MsgStudy(study.best_study_hour.val)) ELSE r4
    IN  r5

(***************************************************************************)
(* exportReportCSV.                                                        *)
(***************************************************************************)
\* The d decimal digits of frac, leading zeros kept.
RECURSIVE Digits(_, _)
Digits(frac, d) ==
    IF d = 0 THEN "" ELSE Digits(frac \div 10, d - 1) \o ToString(frac % 10)

\* The same without the trailing zeros.
RECURSIVE FractionDigits(_, _)
FractionDigits(frac, d) ==
    IF frac % 10 = 0 THEN FractionDigits(frac \div 10, d - 1) ELSE Digits(frac, d)

RECURSIVE Pow10(_)
Pow10(d) == IF d = 0 THEN 1 ELSE 10 * Pow10(d - 1)

\* `${x}` for the number x = k / 10^d, k >= 0: "3", "3.5", "0.667".
NumberText(k, d) ==
    LET whole == k \div Pow10(d)
        frac  == k % Pow10(d)
    IN  IF frac = 0 THEN ToString(whole)
        ELSE ToString(whole) \o "." \o FractionDigits(frac, d)

\* `${o.f}` for a field holding a number rounded to d decimals, if present.
NumberFieldText(o, f, d) == IF Has(o, f) THEN NumberText(o[f], d) ELSE "undefined"

\* `${o.f}` for a field holding a string, if present.
StringFieldText(o, f) == IF Has(o, f) THEN o[f] ELSE "undefined"

\* `${study.best_study_hour}`: an hour, null, or undefined.
HourText(study) ==
    IF ~Has(study, "best_study_hour") THEN "undefined"
    ELSE IF study.best_study_hour = Null THEN "null"
    ELSE ToString(study.best_study_hour.val)

\* Variant: the rows numbered by the 0-based index.
RecommendationRowsFromZero(recommendations) ==
    [index \in DOMAIN recommendations |->
        "recommendation_" \o ToString(index - 1) \o ",\"" \o recommendations[index]
            \o "\",recommendations"]

\* report.recommendations.forEach((rec, index) => rows.push(...))
RecommendationRows(recommendations) ==
    [index \in DOMAIN recommendations |->
        "recommendation_" \o ToString(index) \o ",\"" \o recommendations[index]
            \o "\",recommendations"]

\* The rows array before the join.
CsvRows(report) ==
    LET mood   == report.insights.mood
        habits == report.insights.habits
        study  == report.insights.study
    IN  <<"metric,value,category">>
        \o (IF Present(mood)
            THEN <<"mood_average," \o NumberText(mood.average, 2) \o ",mood",
                   "mood_trend," \o mood.trend \o ",mood",
                   "mood_volatility," \o NumberText(mood.volatility, 2) \o ",mood">>
            ELSE <<>>)
        \o (IF Present(habits)
            THEN <<"habit_completion_rate,"
                       \o NumberFieldText(habits, "overall_completion_rate", 3)
                       \o ",habits",
                   "most_consistent_habit,"
                       \o StringFieldText(habits, "most_consistent_habit")
                       \o ",habits">>
            ELSE <<>>)
        \o (IF Present(study)
            THEN <<"study_completion_rate,"
                       \o NumberFieldText(study, "completion_rate", 3) \o ",study",
                   "avg_study_duration,"
                       \o NumberFieldText(study, "avg_duration", 1) \o ",study",
                   "best_study_hour," \o HourText(study) \o ",study">>
            ELSE <<>>)
        \o RecommendationRows(report.recommendations)

\* rows.join('\n')
RECURSIVE Join(_)
Join(rows) ==
    IF rows = <<>> THEN ""
    ELSE IF Len(rows) = 1 THEN rows[1]
    ELSE Join(SubSeq(rows, 1, Len(rows) - 1)) \o "\n" \o rows[Len(rows)]

\* The default destination, today being new Date().toISOString().split('T')[0].
DefaultCsvPath(report, today) ==
    "wellness_report_" \o report.user_id \o "_" \o today \o ".csv"

\* The outcome of an async method: the value it resolves with or the error it
\* rejects with.
Resolved(value) == [state |-> "fulfilled", value |-> value]
Rejected(error) == [state |-> "rejected", reason |-> error]

\* An Error object.
Error(message) == [type |-> "error", message |-> message]

(***************************************************************************)
(* Input series.                                                           *)
(***************************************************************************)
SeqsUpTo(S, n) == UNION {[1..k -> S] : k \in 0..n}

\* generateMockMoodData: one entry per day from startDate on, with a random
\* mood_level in 1..5 (energy_level and notes are read by no method).
DailyMoodSeries(startDate, maxDays) ==
    UNION {{[i \in 1..k |-> [date |-> startDate + i - 1, mood_level |-> lv[i]]] :
               lv \in [1..k -> MinMoodLevel..MaxMoodLevel]} : k \in 0..maxDays}

\* A series with an entry every other day only.
SparseMoodSeries(startDate, maxDays) ==
    UNION {{[i \in 1..k |-> [date |-> startDate + 2 * (i - 1), mood_level |-> lv[i]]] :
               lv \in [1..k -> MinMoodLevel..MaxMoodLevel]} : k \in 0..maxDays}

\* generateMockHabitData: every day from startDate on, one entry per habit in
\* the order of the habits list, with target 1 and a random completed 0 or 1.
DailyHabitSeries(habits, startDate, maxDays) ==
    LET h == Len(habits)
    IN  UNION {{[i \in 1..(k * h) |->
                   [name      |-> habits[((i - 1) % h) + 1],
                    date      |-> startDate + ((i - 1) \div h),
                    completed |-> done[i],
                    target    |-> 1]] :
                done \in [1..(k * h) -> {0, 1}]} : k \in 0..maxDays}

HabitNames == <<"Hydration", "Mindfulness">>

\* Habit entries in any order, with repeated dates and any counts.
AnyHabitEntries ==
    [name : SeqToSet(HabitNames), date : {1, 2},
     completed : 0..MaxCount, target : 0..MaxCount]

\* generateMockStudyData shape: sessions {subject, duration_minutes, completed}
\* with the hour of their timestamp.
Session(subject, minutes, completed, hour) ==
    [subject |-> subject, duration_minutes |-> minutes, completed |-> completed,
     hour |-> hour]

\* Sessions of any outcome at midnight, in the morning and in the afternoon.
StudyHours == {0, 9, 14}
AnySessions ==
    [subject : {"Physics"}, duration_minutes : {30}, completed : BOOLEAN,
     hour : StudyHours]

\* Sessions of two of the subjects of generateMockStudyData, of its shortest
\* and longest duration, at two hours.
MixedSessions ==
    [subject : {"Mathematics", "Physics"}, duration_minutes : {15, 74},
     completed : BOOLEAN, hour : {9, 14}]

MoodLevels(levels) ==
    [i \in DOMAIN levels |-> [date |-> i, mood_level |-> levels[i]]]

HabitDays(name, counts) ==
    [i \in DOMAIN counts |->
        [name |-> name, date |-> i, completed |-> counts[i][1], target |-> counts[i][2]]]

\* Literal series for the runs of the whole engine.
MoodFixtures ==
    {MoodLevels(<<>>), MoodLevels(<<3>>), MoodLevels(<<3, 3, 3, 3, 3>>),
     MoodLevels(<<1, 2, 3, 4, 5>>), MoodLevels(<<5, 1>>), MoodLevels(<<1, 5>>),
     MoodLevels(<<2, 1>>), MoodLevels(<<1, 4>>)}

HabitFixtures ==
    {<<>>,
     HabitDays("Hydration", <<<<1, 1>>, <<1, 1>>, <<0, 1>>, <<1, 1>>, <<1, 1>>, <<1, 1>>>>),
     HabitDays("Hydration", <<<<0, 1>>>>) \o HabitDays("Mindfulness", <<<<1, 1>>>>),
     <<[name |-> "Rest", date |-> 2, completed |-> 7, target |-> 10],
       [name |-> "Rest", date |-> 1, completed |-> 1, target |-> 1]>>,
     HabitDays("Stretch, then rest", <<<<1, 1>>, <<0, 1>>>>),
     HabitDays("Movement", <<<<1, 1>>>>)}

StudyFixtures ==
    {<<>>,
     <<Session("Physics", 30, TRUE, 9)>>,
     <<Session("Physics", 30, TRUE, 9), Session("Mathematics", 45, FALSE, 9)>>,
     <<Session("Physics", 30, FALSE, 9), Session("Mathematics", 45, TRUE, 0)>>,
     <<Session("Literature", 15, FALSE, 14)>>,
     <<Session("Physics", 20, TRUE, 9), Session("Physics", 20, TRUE, 9),
       Session("Physics", 20, TRUE, 10), Session("Physics", 20, TRUE, 10),
       Session("Physics", 20, FALSE, 10)>>}

\* Recommendation lists of reports a caller builds itself.
CallerRecommendations ==
    {<<"Drink more water">>,
     <<"Sleep early, wake early">>,
     <<"Say \"no\" more often">>,
     <<"Drink more water", "Sleep early, wake early", "Drink more water">>}

UserIds == {"test_user_1"}
Today == "2024-01-15"
OutputPaths == {"out/report.csv"}
JsonOutputPaths == {"out/report.json"}

\* Errors fs.writeFile rejects with.
WriteErrors ==
    {Error("EACCES: permission denied"), Error("ENOSPC: no space left on device")}

\* The series the data source supplies to the calls of a run.
SuppliedMood == {MoodLevels(<<>>), MoodLevels(<<3>>), MoodLevels(<<2, 1>>)}
SuppliedHabits ==
    {<<>>,
     HabitDays("Hydration", <<<<0, 1>>>>) \o HabitDays("Mindfulness", <<<<1, 1>>>>),
     HabitDays("Read \"Dune\"", <<<<7, 10>>>>)}
SuppliedStudy ==
    {<<>>,
     <<Session("Physics", 30, FALSE, 9), Session("Mathematics", 45, TRUE, 14),
       Session("Physics", 20, FALSE, 14)>>}

(***************************************************************************)
(* State: the series the data source holds and the last call made on the   *)
(* analyzer: its name, its argument, the rows it built, the file it wrote  *)
(* (null when it wrote none) and its outcome; the fields of the analyzer   *)
(* instance; the error a collaborator awaited by the last call raised      *)
(* (null when none did); the input and the report of the createWellness-   *)
(* Report call before the last one on this instance (null when none); the   *)
(* createWellnessReport invocations of each user on this instance that have *)
(* not run to their end in one step; the BloomWell page of src/script.js    *)
(* (null where no page is loaded).                                          *)
(***************************************************************************)
VARIABLES moodData, habitData, studyData, called, arg, rows, file, returned,
          this, thrown, previous, invocations, app

vars == <<moodData, habitData, studyData, called, arg, rows, file, returned,
          this, thrown, previous, invocations, app>>

\* constructor(): this.userData = new Map(); this.insights = new Map()
Constructor == [userData |-> EmptyMap, insights |-> EmptyMap]

\* The users whose reports are generated at the same time.
ConcurrentUsers == {"test_user_1", "test_user_2"}

\* No createWellnessReport invocation of the user is under way.
Idle == [pc |-> "idle"]

NoCallYet ==
    /\ this = Constructor
    /\ thrown = Null
    /\ previous = Null
    /\ file = Null
    /\ called = "none"
    /\ arg = Undefined
    /\ rows = <<>>
    /\ returned = Undefined
    /\ invocations = [userId \in ConcurrentUsers |-> Idle]

NoCall == NoCallYet /\ app = Null

Init ==
    /\ moodData \in MoodFixtures
    /\ habitData \in HabitFixtures
    /\ studyData \in StudyFixtures
    /\ NoCall

InitMood ==
    /\ moodData \in DailyMoodSeries(1, MaxMoodDays)
                       \cup SparseMoodSeries(1, MaxSparseDays)
    /\ habitData = <<>>
    /\ studyData = <<>>
    /\ NoCall

InitReorder ==
    /\ moodData \in DailyMoodSeries(1, MaxReorderDays)
    /\ habitData = <<>>
    /\ studyData = <<>>
    /\ NoCall

InitHabit ==
    /\ moodData = <<>>
    /\ habitData \in DailyHabitSeries(HabitNames, 1, MaxHabitDays)
                        \cup SeqsUpTo(AnyHabitEntries, MaxHabitEntries)
    /\ studyData = <<>>
    /\ NoCall

InitStudy ==
    /\ moodData = <<>>
    /\ habitData = <<>>
    /\ studyData \in SeqsUpTo(AnySessions, MaxSessions)
    /\ NoCall

InitSubjects ==
    /\ moodData = <<>>
    /\ habitData = <<>>
    /\ studyData \in SeqsUpTo(MixedSessions, MaxMixedSessions)
    /\ NoCall

InitConcurrent ==
    /\ moodData = <<>>
    /\ habitData = <<>>
    /\ studyData = <<>>
    /\ NoCall

InitReport ==
    /\ moodData \in SuppliedMood
    /\ habitData \in SuppliedHabits
    /\ studyData \in SuppliedStudy
    /\ NoCall

data == <<moodData, habitData, studyData>>

\* The caller's array after calculateMoodInsights: reduce, map and forEach
\* (lines 103-131) read it and build new values.
MoodInputAfter(input) == input

\* Variant: the sort of line 183 applied to the caller's array.
HabitInputSorted(input) == SortByDate(input)

\* The caller's array after analyzeHabitPatterns: the forEach of lines 171-176
\* pushes its entries to the arrays habitGroups[name] created at line 173, and
\* the sort of line 183 reorders those arrays in place.
HabitInputAfter(input) == input

\* The caller's array after analyzeStudyPerformance: reduce, filter and
\* forEach (lines 229-271) read it and build new values.
StudyInputAfter(input) == input

CalculateMoodInsights ==
    \E moodArg \in {Array(moodData), Null, Undefined} :
        /\ called' = "calculateMoodInsights"
        /\ arg' = moodArg
        /\ returned' = calculateMoodInsights(moodArg)
        /\ moodData' = IF Missing(moodArg) \/ moodArg.items = <<>> THEN moodData
                       ELSE MoodInputAfter(moodData)
        /\ rows' = <<>>
        /\ file' = Null
        /\ thrown' = Null
        /\ UNCHANGED <<habitData, studyData, this, previous, invocations, app>>

AnalyzeHabitPatterns ==
    \E habitArg \in {Array(habitData), Null, Undefined} :
        /\ called' = "analyzeHabitPatterns"
        /\ arg' = habitArg
        /\ returned' = analyzeHabitPatterns(habitArg)
        /\ habitData' = IF Missing(habitArg) \/ habitArg.items = <<>> THEN habitData
                        ELSE HabitInputAfter(habitData)
        /\ rows' = <<>>
        /\ file' = Null
        /\ thrown' = Null
        /\ UNCHANGED <<moodData, studyData, this, previous, invocations, app>>

AnalyzeStudyPerformance ==
    \E studyArg \in {Array(studyData), Null, Undefined} :
        /\ called' = "analyzeStudyPerformance"
        /\ arg' = studyArg
        /\ returned' = analyzeStudyPerformance(studyArg)
        /\ studyData' = IF Missing(studyArg) \/ studyArg.items = <<>> THEN studyData
                        ELSE StudyInputAfter(studyData)
        /\ rows' = <<>>
        /\ file' = Null
        /\ thrown' = Null
        /\ UNCHANGED <<moodData, habitData, this, previous, invocations, app>>

\* The insights a caller passes: each section is what the analyzer returns for
\* the series, or null.
InsightsOf(mood, habits, study) ==
    {[mood |-> m, habits |-> h, study |-> s] :
        m \in {calculateMoodInsights(Array(mood)), Null},
        h \in {analyzeHabitPatterns(Array(habits)), Null},
        s \in {analyzeStudyPerformance(Array(study)), Null}}

GenerateRecommendations ==
    \E insights \in InsightsOf(moodData, habitData, studyData) :
        /\ called' = "generateRecommendations"
        /\ arg' = insights
        /\ returned' = generateRecommendations(insights)
        /\ rows' = <<>>
        /\ file' = Null
        /\ thrown' = Null
        /\ UNCHANGED <<data, this, previous, invocations, app>>

\* The reports a caller exports: the insights of the series, or no insight
\* section at all, with the recommendations generated from them or, for the
\* former, with a list of the caller's own.
ReportsOf(mood, habits, study) ==
    LET full == [mood   |-> calculateMoodInsights(Array(mood)),
                 habits |-> analyzeHabitPatterns(Array(habits)),
                 study  |-> analyzeStudyPerformance(Array(study))]
        none == [mood |-> Null, habits |-> Null, study |-> Null]
    IN  {[user_id |-> u, insights |-> full, recommendations |-> r] :
            u \in UserIds, r \in CallerRecommendations}
        \cup
        {[user_id |-> u, insights |-> i, recommendations |-> generateRecommendations(i)] :
            u \in UserIds, i \in {full, none}}

\* The file a successful fs.writeFile(path, content) leaves.
WriteFile(path, content) == [path |-> path, content |-> content]

\* The outcomes of the awaited fs.writeFile.
WriteOutcomes == {Resolved(Undefined)} \cup {Rejected(error) : error \in WriteErrors}

\* Variant: a catch that logs the error and does not rethrow it.
CatchExportCSVSwallowed(error) == Resolved(Undefined)

\* catch (error) { console.error(...); throw error; } of exportReportCSV.
CatchExportCSV(error) == Rejected(error)

ExportReportCSV ==
    \E report \in ReportsOf(moodData, habitData, studyData),
       path \in OutputPaths, pathGiven \in BOOLEAN, writing \in WriteOutcomes :
        LET outputPath == IF pathGiven THEN path ELSE DefaultCsvPath(report, Today)
            csvContent == Join(CsvRows(report))
        IN  /\ called' = "exportReportCSV"
            /\ arg' = [report |-> report,
                       outputPath |-> IF pathGiven THEN String(path) ELSE Null]
            /\ rows' = CsvRows(report)
            /\ IF writing.state = "fulfilled"
               THEN /\ file' = WriteFile(outputPath, csvContent)
                    /\ thrown' = Null
                    /\ returned' = Resolved(outputPath)
               ELSE /\ file' = Null
                    /\ thrown' = writing.reason
                    /\ returned' = CatchExportCSV(writing.reason)
            /\ UNCHANGED <<data, this, previous, invocations, app>>

(***************************************************************************)
(* createWellnessReport.                                                   *)
(***************************************************************************)
DefaultDays == 30
\* The day of new Date(), counted from 1970-01-01, and its time of day.
NowDay == 19737
TimeOfDay == "T10:30:00.000Z"

Pad2(k) == IF k < 10 THEN "0" \o ToString(k) ELSE ToString(k)

\* toISOString().split('T')[0] of the day number `day`: the proleptic
\* Gregorian date as YYYY-MM-DD.
IsoDate(day) ==
    LET z   == day + 719468
        era == z \div 146097
        doe == z - era * 146097
        yoe == (doe - doe \div 1460 + doe \div 36524 - doe \div 146096) \div 365
        doy == doe - (365 * yoe + yoe \div 4 - yoe \div 100)
        mp  == (5 * doy + 2) \div 153
        d   == doy - (153 * mp + 2) \div 5 + 1
        m   == IF mp < 10 THEN mp + 3 ELSE mp - 9
        y   == yoe + era * 400 + (IF m <= 2 THEN 1 ELSE 0)
    IN  ToString(y) \o "-" \o Pad2(m) \o "-" \o Pad2(d)

\* The object loadUserData resolves with; period is always empty.
LoadedData(mood, habits, study) ==
    [mood |-> mood, habits |-> habits, study |-> study, period |-> <<>>]

\* Errors the data source rejects with.
LoadErrors ==
    {Error("ECONNREFUSED: data source unavailable"), Error("ETIMEDOUT: data source timed out")}

\* Variant: the insights of an earlier report of the instance served again.
AllInsightsRemembered(loaded) ==
    IF previous # Null THEN previous.report.insights
    ELSE [mood   |-> calculateMoodInsights(Array(loaded.mood)),
          habits |-> analyzeHabitPatterns(Array(loaded.habits)),
          study  |-> analyzeStudyPerformance(Array(loaded.study))]

\* allInsights of the three analyses of the loaded series.
AllInsights(loaded) ==
    [mood   |-> calculateMoodInsights(Array(loaded.mood)),
     habits |-> analyzeHabitPatterns(Array(loaded.habits)),
     study  |-> analyzeStudyPerformance(Array(loaded.study))]

\* Variant: mood_entries taken from the habit series.
DataQualityOfHabits(loaded) ==
    [mood_entries   |-> Len(loaded.habits),
     habit_entries  |-> Len(loaded.habits),
     study_entries  |-> Len(loaded.study),
     period_entries |-> Len(loaded.period)]

DataQuality(loaded) ==
    [mood_entries   |-> Len(loaded.mood),
     habit_entries  |-> Len(loaded.habits),
     study_entries  |-> Len(loaded.study),
     period_entries |-> Len(loaded.period)]

\* Variant: a catch that logs the error and does not rethrow it.
CatchReportSwallowed(error) == Resolved(Undefined)

\* catch (error) { console.error(...); throw error; } of createWellnessReport.
CatchReport(error) == Rejected(error)

\* createWellnessReport(userId, days = 30), `loading` being the outcome of
\* the awaited loadUserData(userId, days).
createWellnessReport(userId, daysArg, loading) ==
    LET days == IF daysArg = Undefined THEN DefaultDays ELSE daysArg.val
    IN  IF loading.state = "rejected" THEN CatchReport(loading.reason)
        ELSE LET loaded      == loading.value
                 allInsights == AllInsights(loaded)
             IN  Resolved(
                     [user_id         |-> userId,
                      analysis_period |-> [days       |-> days,
                                           start_date |-> IsoDate(NowDay - days),
                                           end_date   |-> IsoDate(NowDay)],
                      insights        |-> allInsights,
                      recommendations |-> generateRecommendations(allInsights),
                      generated_at    |-> IsoDate(NowDay) \o TimeOfDay,
                      data_quality    |-> DataQuality(loaded)])

\* The windows a caller asks for: none (the HTTP route) or a number of days.
DaysArgs == {Undefined, Number(7)}

(***************************************************************************)
(* exportReportJSON.  The text JSON.stringify(report, null, 2) writes is   *)
(* kept as its syntax tree: an object is the sequence of its members       *)
(* <<[key, value]>> in the order written (a record where the members are   *)
(* fixed), a scalar is the token written for it.  JSON.parse reads the     *)
(* tokens back.                                                            *)
(***************************************************************************)
\* A string with " and \ escaped, by halves.
RECURSIVE JsonEscape(_)
JsonEscape(s) ==
    IF s = "" THEN ""
    ELSE IF Len(s) = 1
         THEN (IF s = "\"" \/ s = "\\" THEN "\\" \o s ELSE s)
         ELSE LET mid == Len(s) \div 2
              IN  JsonEscape(SubSeq(s, 1, mid)) \o JsonEscape(SubSeq(s, mid + 1, Len(s)))

JsonString(s) == "\"" \o JsonEscape(s) \o "\""

\* A number k / 10^d: JSON.stringify writes `${x}`.
JsonNumber(k, d) == IF k < 0 THEN "-" \o NumberText(-k, d) ELSE NumberText(k, d)

\* A field holding a number, NaN or null: NaN and null are both written null.
JsonNumberOrNull(v, d) ==
    IF v = NaN \/ v = Null THEN "null" ELSE JsonNumber(v.val, d)

\* An unrounded double: the shortest decimal text that reads back as the same
\* double (Number::toString), kept as the quotient it denotes.
JsonDouble(q) == [double |-> q]

\* An object used as a map: its members in Object.keys order.
\* keyOf and valueOf give the tokens of each key and of its value.
JsonObject(keys, keyOf, valueOf) ==
    [i \in DOMAIN keys |-> [key |-> keyOf[keys[i]], value |-> valueOf[keys[i]]]]

JsonHourKey(hour) == JsonString(ToString(hour))
JsonCount(n) == JsonNumber(n, 0)
JsonRate(r) == JsonNumber(r, 3)
JsonBucket(b) ==
    [sessions      |-> JsonCount(b.sessions),
     completed     |-> JsonCount(b.completed),
     totalDuration |-> JsonCount(b.totalDuration)]

\* The maps of a report: weekday means, per-habit streaks and rates, hour and
\* subject buckets.
JsonDoubles(map) ==
    JsonObject(map.keys, [k \in DOMAIN map.val |-> JsonString(k)],
                         [k \in DOMAIN map.val |-> JsonDouble(map.val[k])])
JsonCounts(map) ==
    JsonObject(map.keys, [k \in DOMAIN map.val |-> JsonString(k)],
                         [k \in DOMAIN map.val |-> JsonCount(map.val[k])])
JsonRates(map) ==
    JsonObject(map.keys, [k \in DOMAIN map.val |-> JsonString(k)],
                         [k \in DOMAIN map.val |-> JsonRate(map.val[k])])
JsonHours(map) ==
    JsonObject(map.keys, [k \in DOMAIN map.val |-> JsonHourKey(k)],
                         [k \in DOMAIN map.val |-> JsonBucket(map.val[k])])
JsonSubjects(map) ==
    JsonObject(map.keys, [k \in DOMAIN map.val |-> JsonString(k)],
                         [k \in DOMAIN map.val |-> JsonBucket(map.val[k])])

JsonMood(mood) ==
    IF ~Has(mood, "trend_slope")
    THEN [average    |-> JsonNumber(mood.average, 2),
          trend      |-> JsonString(mood.trend),
          volatility |-> JsonNumber(mood.volatility, 2)]
    ELSE [average          |-> JsonNumber(mood.average, 2),
          trend            |-> JsonString(mood.trend),
          trend_slope      |-> JsonNumberOrNull(mood.trend_slope, 4),
          volatility       |-> JsonNumber(mood.volatility, 2),
          best_weekday     |-> JsonString(mood.best_weekday),
          worst_weekday    |-> JsonString(mood.worst_weekday),
          weekday_patterns |-> JsonDoubles(mood.weekday_patterns)]

JsonHabits(habits) ==
    IF ~Has(habits, "overall_completion_rate")
    THEN [completion_rate |-> JsonCount(habits.completion_rate),
          streaks         |-> JsonCounts(habits.streaks),
          patterns        |-> JsonCounts(habits.patterns)]
    ELSE [overall_completion_rate     |-> JsonRate(habits.overall_completion_rate),
          individual_completion_rates |-> JsonRates(habits.individual_completion_rates),
          current_streaks             |-> JsonCounts(habits.current_streaks),
          most_consistent_habit       |-> JsonString(habits.most_consistent_habit),
          needs_attention             |-> JsonString(habits.needs_attention)]

JsonStudy(study) ==
    IF ~Has(study, "best_study_hour")
    THEN [total_sessions |-> JsonCount(study.total_sessions),
          avg_duration   |-> JsonCount(study.avg_duration),
          efficiency     |-> JsonCount(study.efficiency)]
    ELSE [total_sessions      |-> JsonCount(study.total_sessions),
          total_minutes       |-> JsonCount(study.total_minutes),
          avg_duration        |-> JsonNumber(study.avg_duration, 1),
          completion_rate     |-> JsonRate(study.completion_rate),
          best_study_hour     |-> JsonNumberOrNull(study.best_study_hour, 0),
          hourly_patterns     |-> JsonHours(study.hourly_patterns),
          subject_performance |-> JsonSubjects(study.subject_performance)]

\* JSON.stringify(report, null, 2) for a report of createWellnessReport.
JsonStringify(report) ==
    [user_id         |-> JsonString(report.user_id),
     analysis_period |-> [days       |-> JsonCount(report.analysis_period.days),
                          start_date |-> JsonString(report.analysis_period.start_date),
                          end_date   |-> JsonString(report.analysis_period.end_date)],
     insights        |-> [mood   |-> JsonMood(report.insights.mood),
                          habits |-> JsonHabits(report.insights.habits),
                          study  |-> JsonStudy(report.insights.study)],
     recommendations |-> [i \in DOMAIN report.recommendations |->
                             JsonString(report.recommendations[i])],
     generated_at    |-> JsonString(report.generated_at),
     data_quality    |-> [mood_entries   |-> JsonCount(report.data_quality.mood_entries),
                          habit_entries  |-> JsonCount(report.data_quality.habit_entries),
                          study_entries  |-> JsonCount(report.data_quality.study_entries),
                          period_entries |-> JsonCount(report.data_quality.period_entries)]]

\* Reading a string token between its quotes: after a backslash the next
\* character stands for itself.  For each state of the reader before place
\* lo, its state after place hi and the text read in between.
RECURSIVE JsonUnescape(_, _, _)
JsonUnescape(t, lo, hi) ==
    IF lo = hi
    THEN LET c == SubSeq(t, lo, lo)
         IN  [at \in {"plain", "escaped"} |->
                 IF at = "plain" /\ c = "\\"
                 THEN [at |-> "escaped", out |-> ""]
                 ELSE [at |-> "plain", out |-> c]]
    ELSE LET mid   == (lo + hi) \div 2
             left  == JsonUnescape(t, lo, mid)
             right == JsonUnescape(t, mid + 1, hi)
         IN  [at \in {"plain", "escaped"} |->
                 [at  |-> right[left[at].at].at,
                  out |-> left[at].out \o right[left[at].at].out]]

ParseString(token) ==
    IF Len(token) = 2 THEN ""
    ELSE JsonUnescape(token, 2, Len(token) - 1)["plain"].out

DigitOf(c) == CHOOSE k \in 0..9 : ToString(k) = c

RECURSIVE ParseDigits(_)
ParseDigits(t) ==
    IF t = "" THEN 0
    ELSE 10 * ParseDigits(SubSeq(t, 1, Len(t) - 1)) + DigitOf(SubSeq(t, Len(t), Len(t)))

\* The number a number token denotes, times 10^d.
ParseNumber(token, d) ==
    LET negative == SubSeq(token, 1, 1) = "-"
        digits   == IF negative THEN SubSeq(token, 2, Len(token)) ELSE token
        dots     == {i \in 1..Len(digits) : SubSeq(digits, i, i) = "."}
        dot      == IF dots = {} THEN Len(digits) + 1 ELSE CHOOSE i \in dots : TRUE
        whole    == SubSeq(digits, 1, dot - 1)
        frac     == SubSeq(digits, dot + 1, Len(digits))
        k        == ParseDigits(whole) * Pow10(d) + ParseDigits(frac) * Pow10(d - Len(frac))
    IN  IF negative THEN -k ELSE k

\* The token null reads as null, whatever value it was written for.
ParseNumberOrNull(token, d) ==
    IF token = "null" THEN Null ELSE Number(ParseNumber(token, d))

ParseDouble(token) == token.double

\* An object read from its members, keys and values being those read from
\* each member.
ParseObject(keys, values) ==
    [keys |-> keys,
     val  |-> [k \in SeqToSet(keys) |-> values[CHOOSE i \in DOMAIN keys : keys[i] = k]]]

ParseHourKey(token) == ParseDigits(ParseString(token))
ParseCount(token) == ParseNumber(token, 0)
ParseRate(token) == ParseNumber(token, 3)
ParseBucket(b) ==
    [sessions      |-> ParseCount(b.sessions),
     completed     |-> ParseCount(b.completed),
     totalDuration |-> ParseCount(b.totalDuration)]

ParseDoubles(members) ==
    ParseObject([i \in DOMAIN members |-> ParseString(members[i].key)],
                [i \in DOMAIN members |-> ParseDouble(members[i].value)])
ParseCounts(members) ==
    ParseObject([i \in DOMAIN members |-> ParseString(members[i].key)],
                [i \in DOMAIN members |-> ParseCount(members[i].value)])
ParseRates(members) ==
    ParseObject([i \in DOMAIN members |-> ParseString(members[i].key)],
                [i \in DOMAIN members |-> ParseRate(members[i].value)])
ParseHours(members) ==
    ParseObject([i \in DOMAIN members |-> ParseHourKey(members[i].key)],
                [i \in DOMAIN members |-> ParseBucket(members[i].value)])
ParseSubjects(members) ==
    ParseObject([i \in DOMAIN members |-> ParseString(members[i].key)],
                [i \in DOMAIN members |-> ParseBucket(members[i].value)])

ParseMood(mood) ==
    IF ~Has(mood, "trend_slope")
    THEN [average    |-> ParseNumber(mood.average, 2),
          trend      |-> ParseString(mood.trend),
          volatility |-> ParseNumber(mood.volatility, 2)]
    ELSE [average          |-> ParseNumber(mood.average, 2),
          trend            |-> ParseString(mood.trend),
          trend_slope      |-> ParseNumberOrNull(mood.trend_slope, 4),
          volatility       |-> ParseNumber(mood.volatility, 2),
          best_weekday     |-> ParseString(mood.best_weekday),
          worst_weekday    |-> ParseString(mood.worst_weekday),
          weekday_patterns |-> ParseDoubles(mood.weekday_patterns)]

ParseHabits(habits) ==
    IF ~Has(habits, "overall_completion_rate")
    THEN [completion_rate |-> ParseCount(habits.completion_rate),
          streaks         |-> ParseCounts(habits.streaks),
          patterns        |-> ParseCounts(habits.patterns)]
    ELSE [overall_completion_rate     |-> ParseRate(habits.overall_completion_rate),
          individual_completion_rates |-> ParseRates(habits.individual_completion_rates),
          current_streaks             |-> ParseCounts(habits.current_streaks),
          most_consistent_habit       |-> ParseString(habits.most_consistent_habit),
          needs_attention             |-> ParseString(habits.needs_attention)]

ParseStudy(study) ==
    IF ~Has(study, "best_study_hour")
    THEN [total_sessions |-> ParseCount(study.total_sessions),
          avg_duration   |-> ParseCount(study.avg_duration),
          efficiency     |-> ParseCount(study.efficiency)]
    ELSE [total_sessions      |-> ParseCount(study.total_sessions),
          total_minutes       |-> ParseCount(study.total_minutes),
          avg_duration        |-> ParseNumber(study.avg_duration, 1),
          completion_rate     |-> ParseRate(study.completion_rate),
          best_study_hour     |-> ParseNumberOrNull(study.best_study_hour, 0),
          hourly_patterns     |-> ParseHours(study.hourly_patterns),
          subject_performance |-> ParseSubjects(study.subject_performance)]

\* JSON.parse of the text of a report.
JsonParse(text) ==
    [user_id         |-> ParseString(text.user_id),
     analysis_period |-> [days       |-> ParseCount(text.analysis_period.days),
                          start_date |-> ParseString(text.analysis_period.start_date),
                          end_date   |-> ParseString(text.analysis_period.end_date)],
     insights        |-> [mood   |-> ParseMood(text.insights.mood),
                          habits |-> ParseHabits(text.insights.habits),
                          study  |-> ParseStudy(text.insights.study)],
     recommendations |-> [i \in DOMAIN text.recommendations |->
                             ParseString(text.recommendations[i])],
     generated_at    |-> ParseString(text.generated_at),
     data_quality    |-> [mood_entries   |-> ParseCount(text.data_quality.mood_entries),
                          habit_entries  |-> ParseCount(text.data_quality.habit_entries),
                          study_entries  |-> ParseCount(text.data_quality.study_entries),
                          period_entries |-> ParseCount(text.data_quality.period_entries)]]

\* The default destination of exportReportJSON.
DefaultJsonPath(report, today) ==
    "wellness_report_" \o report.user_id \o "_" \o today \o ".json"

\* The reports createWellnessReport returns for the series.
EngineReports(mood, habits, study) ==
    {createWellnessReport(userId, daysArg,
                          Resolved(LoadedData(mood, habits, study))).value :
        userId \in UserIds, daysArg \in DaysArgs}

\* catch (error) { console.error(...); throw error; } of exportReportJSON.
CatchExportJSON(error) == Rejected(error)

ExportReportJSON ==
    \E report \in EngineReports(moodData, habitData, studyData),
       path \in JsonOutputPaths, pathGiven \in BOOLEAN, writing \in WriteOutcomes :
        LET outputPath == IF pathGiven THEN path ELSE DefaultJsonPath(report, Today)
        IN  /\ called' = "exportReportJSON"
            /\ arg' = [report |-> report,
                       outputPath |-> IF pathGiven THEN String(path) ELSE Null]
            /\ rows' = <<>>
            /\ IF writing.state = "fulfilled"
               THEN /\ file' = WriteFile(outputPath, JsonStringify(report))
                    /\ thrown' = Null
                    /\ returned' = Resolved(outputPath)
               ELSE /\ file' = Null
                    /\ thrown' = writing.reason
                    /\ returned' = CatchExportJSON(writing.reason)
            /\ UNCHANGED <<data, this, previous, invocations, app>>

\* The last call, when it was a createWellnessReport that returned a report.
LastReport ==
    IF called = "createWellnessReport" /\ returned.state = "fulfilled"
    THEN {[input  |-> [mood |-> moodData, habits |-> habitData,
                       study |-> studyData, days |-> arg.days],
           report |-> returned.value]}
    ELSE {}

\* The outcomes of the awaited loadUserData: the supplied series or an error.
LoadOutcomes ==
    {Resolved(LoadedData(mood, habits, study)) :
        mood \in SuppliedMood, habits \in SuppliedHabits, study \in SuppliedStudy}
    \cup {Rejected(error) : error \in LoadErrors}

\* One call of createWellnessReport: the data source supplies fresh series (or
\* fails); `previous` keeps any one of the earlier calls.
CreateWellnessReport ==
    \E userId \in UserIds, daysArg \in DaysArgs, loading \in LoadOutcomes :
        /\ called' = "createWellnessReport"
        /\ arg' = [userId |-> userId, days |-> daysArg]
        /\ IF loading.state = "fulfilled"
           THEN /\ moodData' = loading.value.mood
                /\ habitData' = loading.value.habits
                /\ studyData' = loading.value.study
                /\ thrown' = Null
           ELSE /\ UNCHANGED data
                /\ thrown' = loading.reason
        /\ returned' = createWellnessReport(userId, daysArg, loading)
        /\ previous' \in {previous} \cup LastReport
        /\ rows' = <<>>
        /\ file' = Null
        /\ UNCHANGED <<this, invocations, app>>

\* Variant: the loaded data kept in this.userData under the user's id.
InstanceCachingLoad(instance, userId, loading) ==
    IF loading.state = "rejected" THEN instance
    ELSE [instance EXCEPT !.userData =
             [keys |-> IF userId \in SeqToSet(@.keys) THEN @.keys
                       ELSE Append(@.keys, userId),
              val  |-> [k \in SeqToSet(@.keys) \cup {userId} |->
                           IF k = userId THEN loading.value ELSE @.val[k]]]]

\* The fields of the analyzer after createWellnessReport has called
\* loadUserData: neither method assigns this.userData or this.insights.
InstanceAfterLoad(instance, userId, loading) == instance

\* createWellnessReport(userId, days) up to its await (line 332): the call of
\* loadUserData runs to its end and returns a promise with the outcome
\* `loading`; the invocation is suspended with its arguments and that promise.
BeginReport ==
    \E userId \in ConcurrentUsers, daysArg \in DaysArgs, loading \in LoadOutcomes :
        /\ invocations[userId].pc = "idle"
        /\ invocations' = [invocations EXCEPT ![userId] =
               [pc |-> "awaiting", days |-> daysArg, loading |-> loading]]
        /\ this' = InstanceAfterLoad(this, userId, loading)
        /\ UNCHANGED <<data, called, arg, rows, file, returned, thrown, previous, app>>

\* The invocation of userId resumed after its await: lines 332-374 run to the
\* end on the constant `data` of this invocation and the promise the caller
\* holds settles with `outcome`.  `overlapped` records the invocations that
\* were suspended while this one ran.
Settle(userId, outcome) ==
    /\ invocations[userId].pc = "awaiting"
    /\ invocations' = [invocations EXCEPT ![userId] =
           [pc         |-> "settled",
            days       |-> @.days,
            loading    |-> @.loading,
            overlapped |-> {other \in ConcurrentUsers \ {userId} :
                               invocations[other].pc = "awaiting"},
            outcome    |-> outcome]]
    /\ UNCHANGED <<data, called, arg, rows, file, returned, thrown, previous, this,
                   app>>

\* What the invocation of userId returns when it resumes.
Outcome(userId) ==
    createWellnessReport(userId, invocations[userId].days,
                         invocations[userId].loading)

Resume(userId) == Settle(userId, Outcome(userId))

ResumeReport == \E userId \in ConcurrentUsers : Resume(userId)

(***************************************************************************)
(* BloomWell page (src/script.js, class BloomWell).  The page is one       *)
(* record: the fields of the instance (currentTab, timers, habits), the    *)
(* parts of the document its handlers read and write (the one session      *)
(* item's button and timer display, the completion statistic, the toast),  *)
(* localStorage, and the intervals the browser holds (the handle setInterval*)
(* returned and the totalSeconds of the callback's closure).  `displayed`  *)
(* is the habit updateHabitDisplay was called for by the last handler.     *)
(* A Map is [keys, val] with keys in insertion order.                      *)
(***************************************************************************)
MapHas(map, key) == key \in SeqToSet(map.keys)

\* Map.prototype.set: an existing key keeps its place.
MapSet(map, key, value) ==
    [keys |-> IF MapHas(map, key) THEN map.keys ELSE Append(map.keys, key),
     val  |-> [k \in SeqToSet(map.keys) \cup {key} |->
                  IF k = key THEN value ELSE map.val[k]]]

RECURSIVE Without(_, _)
Without(keys, key) ==
    IF keys = <<>> THEN <<>>
    ELSE IF Head(keys) = key THEN Without(Tail(keys), key)
         ELSE <<Head(keys)>> \o Without(Tail(keys), key)

\* Map.prototype.delete
MapDelete(map, key) ==
    [keys |-> Without(map.keys, key),
     val  |-> [k \in SeqToSet(map.keys) \ {key} |-> map.val[k]]]

\* Array.from(map.values())
MapValues(map) == [i \in DOMAIN map.keys |-> map.val[map.keys[i]]]

HabitItem(id, name, target, completed, streak, icon) ==
    [id |-> id, name |-> name, target |-> target, completed |-> completed,
     streak |-> streak, icon |-> icon]

defaultHabits ==
    <<HabitItem("hydration", "Hydration", 8, 5, 12, "water"),
      HabitItem("meditation", "Mindfulness", 1, 1, 8, "meditation"),
      HabitItem("movement", "Movement", 1, 0, 15, "movement"),
      HabitItem("rest", "Rest", 1, 1, 3, "rest")>>

\* defaultHabits.forEach(habit => this.habits.set(habit.id, habit))
RECURSIVE SetAll(_, _)
SetAll(map, items) ==
    IF items = <<>> THEN map
    ELSE SetAll(MapSet(map, Head(items).id, Head(items)), Tail(items))

initializeHabits(habits) == SetAll(habits, defaultHabits)

\* The session item of the page and the day of the run.
SessionName == "Deep Work"
TodayString == "Mon Jan 15 2024"

\* The times the session item's display shows when the page is loaded.
TimerDisplays == {"00:02", "01:01"}

\* new BloomWell() on a first visit (localStorage empty, so loadUserData
\* restores nothing), the session item showing `display`.
BloomWell(display) ==
    [currentTab     |-> "wellness",
     timers         |-> EmptyMap,
     habits         |-> initializeHabits(EmptyMap),
     displayed      |-> Null,
     localStorage   |-> [bloomwell_habits |-> Null, bloomwell_study |-> EmptyMap],
     completionStat |-> Null,
     toast          |-> Null,
     button         |-> [playing |-> FALSE, innerHTML |-> "fa-play"],
     display        |-> display,
     intervals      |-> <<>>,
     nextInterval   |-> 1]

\* The page as a handler finds it: nothing shown by this handler yet.
Handling(page) == [page EXCEPT !.displayed = Null, !.toast = Null]

\* Variant: a habit below or at its target incremented.
incrementHabitToTarget(page, habitId) ==
    IF MapHas(page.habits, habitId)
          /\ page.habits.val[habitId].completed <= page.habits.val[habitId].target
    THEN [page EXCEPT !.habits.val[habitId].completed = @ + 1,
                      !.displayed = String(habitId)]
    ELSE page

incrementHabit(page, habitId) ==
    IF MapHas(page.habits, habitId)
          /\ page.habits.val[habitId].completed < page.habits.val[habitId].target
    THEN [page EXCEPT !.habits.val[habitId].completed = @ + 1,
                      !.displayed = String(habitId)]
    ELSE page

decrementHabit(page, habitId) ==
    IF MapHas(page.habits, habitId) /\ page.habits.val[habitId].completed > 0
    THEN [page EXCEPT !.habits.val[habitId].completed = @ - 1,
                      !.displayed = String(habitId)]
    ELSE page

\* String.prototype.toLowerCase on the letters of a name.
UpperCase == "ABCDEFGHIJKLMNOPQRSTUVWXYZ"
LowerCase == "abcdefghijklmnopqrstuvwxyz"
LowerOf(c) ==
    IF \E i \in 1..Len(UpperCase) : SubSeq(UpperCase, i, i) = c
    THEN LET i == CHOOSE i \in 1..Len(UpperCase) : SubSeq(UpperCase, i, i) = c
         IN  SubSeq(LowerCase, i, i)
    ELSE c

RECURSIVE ToLowerCase(_)
ToLowerCase(s) ==
    IF s = "" THEN "" ELSE LowerOf(SubSeq(s, 1, 1)) \o ToLowerCase(SubSeq(s, 2, Len(s)))

\* replace(/\s+/g, '_'): every run of spaces becomes one underscore.
RECURSIVE ReplaceSpaces(_)
ReplaceSpaces(s) ==
    IF s = "" THEN ""
    ELSE IF SubSeq(s, 1, 1) # " "
         THEN SubSeq(s, 1, 1) \o ReplaceSpaces(SubSeq(s, 2, Len(s)))
         ELSE IF Len(s) >= 2 /\ SubSeq(s, 2, 2) = " "
              THEN ReplaceSpaces(SubSeq(s, 2, Len(s)))
              ELSE "_" \o ReplaceSpaces(SubSeq(s, 2, Len(s)))

\* updateStatistics: the text of .stat-number.
updateStatistics(page) ==
    LET all            == MapValues(page.habits)
        totalTargets   == SumOver([i \in DOMAIN all |-> all[i].target], Len(all))
        totalCompleted == SumOver([i \in DOMAIN all |-> all[i].completed], Len(all))
        completionRate == IF totalTargets > 0
                          THEN Round(100 * totalCompleted, totalTargets) ELSE 0
    IN  [page EXCEPT !.completionStat = String(ToString(completionRate) \o "%")]

\* saveUserData: the habits written to localStorage as an array (the text
\* JSON.stringify writes is kept as the array it denotes), then the statistic.
saveUserData(page) ==
    updateStatistics(
        [page EXCEPT !.localStorage.bloomwell_habits = Array(MapValues(page.habits))])

\* addNewHabit, `answer` being what prompt() returned: null when cancelled.
\* renderHabitList rebuilds .habit-list from this.habits and adds nothing to
\* the page record.
addNewHabit(page, answer) ==
    IF answer = Null \/ answer.val = "" THEN page
    ELSE LET habitName == answer.val
             habitId   == ReplaceSpaces(ToLowerCase(habitName))
             newHabit  == HabitItem(habitId, habitName, 1, 0, 0, "custom")
             added     == [page EXCEPT !.habits = MapSet(@, habitId, newHabit)]
         IN  [saveUserData(added) EXCEPT
                 !.toast = String("New ritual \"" \o habitName \o "\" added")]

\* timeText.split(':').map(Number)
TimeOf(timeText) ==
    LET colon == CHOOSE i \in 1..Len(timeText) : SubSeq(timeText, i, i) = ":"
    IN  [minutes |-> ParseDigits(SubSeq(timeText, 1, colon - 1)),
         seconds |-> ParseDigits(SubSeq(timeText, colon + 1, Len(timeText)))]

\* `${mins.toString().padStart(2, '0')}:${secs.toString().padStart(2, '0')}`
TimeText(totalSeconds) == Pad2(totalSeconds \div 60) \o ":" \o Pad2(totalSeconds % 60)

\* playTimer: the interval is created with the seconds the display shows in
\* its closure and registered under the session's name.
playTimer(page) ==
    LET time  == TimeOf(page.display)
        timer == page.nextInterval
    IN  [page EXCEPT
            !.button       = [playing |-> TRUE, innerHTML |-> "fa-pause"],
            !.intervals    = [id \in DOMAIN @ \cup {timer} |->
                                 IF id = timer
                                 THEN [totalSeconds |-> time.minutes * 60 + time.seconds]
                                 ELSE @[id]],
            !.nextInterval = timer + 1,
            !.timers       = MapSet(@, SessionName, timer),
            !.toast        = String(SessionName \o " session started")]

\* Variant: the interval left running, only its registration deleted.
pauseTimerNotCleared(page) ==
    [page EXCEPT
        !.timers = IF MapHas(@, SessionName) THEN MapDelete(@, SessionName) ELSE @,
        !.button = [playing |-> FALSE, innerHTML |-> "fa-play"],
        !.toast  = String(SessionName \o " session paused")]

\* pauseTimer: clearInterval of the registered handle (a handle is a positive
\* number, so `if (timer)` tests that the name is registered).
pauseTimer(page) ==
    LET registered == MapHas(page.timers, SessionName)
        timer      == page.timers.val[SessionName]
    IN  [page EXCEPT
            !.intervals = IF registered THEN [id \in DOMAIN @ \ {timer} |-> @[id]] ELSE @,
            !.timers    = IF registered THEN MapDelete(@, SessionName) ELSE @,
            !.button    = [playing |-> FALSE, innerHTML |-> "fa-play"],
            !.toast     = String(SessionName \o " session paused")]

\* updateStudyStats: studyStats[today][sessionName]++ in localStorage.
updateStudyStats(page) ==
    LET studyStats == page.localStorage.bloomwell_study
        days       == IF MapHas(studyStats, TodayString) THEN studyStats
                      ELSE MapSet(studyStats, TodayString, EmptyMap)
        today      == days.val[TodayString]
        count      == IF MapHas(today, SessionName) THEN today.val[SessionName] ELSE 0
    IN  [page EXCEPT !.localStorage.bloomwell_study =
            MapSet(days, TodayString, MapSet(today, SessionName, count + 1))]

completeTimer(page) ==
    updateStudyStats(
        [pauseTimer(page) EXCEPT
            !.display = "00:00",
            !.toast   = String(SessionName \o " session completed!")])

startTimer(page) ==
    IF page.button.playing THEN pauseTimer(page) ELSE playTimer(page)

\* The callback of the interval `timer`, run once.
IntervalCallback(page, timer) ==
    LET totalSeconds == page.intervals[timer].totalSeconds
    IN  IF totalSeconds <= 0 THEN completeTimer(page)
        ELSE [page EXCEPT !.intervals[timer].totalSeconds = totalSeconds - 1,
                          !.display = TimeText(totalSeconds - 1)]

\* The habit ids the handlers are called with (the last is no habit's id) and
\* the answers given to the prompt of addNewHabit.
HabitIds == {"hydration", "meditation", "deep_work", "sleep"}
PromptAnswers == {Null, String(""), String("Deep  Work"), String("Hydration")}

InitPage ==
    /\ moodData = <<>>
    /\ habitData = <<>>
    /\ studyData = <<>>
    /\ NoCallYet
    /\ app \in {BloomWell(display) : display \in TimerDisplays}

Unused == <<data, rows, file, thrown, this, previous, invocations>>

IncrementHabit ==
    \E habitId \in HabitIds :
        /\ called' = "incrementHabit"
        /\ arg' = String(habitId)
        /\ app' = incrementHabit(Handling(app), habitId)
        /\ returned' = Undefined
        /\ UNCHANGED Unused

DecrementHabit ==
    \E habitId \in HabitIds :
        /\ called' = "decrementHabit"
        /\ arg' = String(habitId)
        /\ app' = decrementHabit(Handling(app), habitId)
        /\ returned' = Undefined
        /\ UNCHANGED Unused

AddNewHabit ==
    \E answer \in PromptAnswers :
        /\ called' = "addNewHabit"
        /\ arg' = answer
        /\ app' = addNewHabit(Handling(app), answer)
        /\ returned' = Undefined
        /\ UNCHANGED Unused

\* A click on the session item's button; a page starts at most MaxTimerStarts
\* intervals.
StartTimer ==
    /\ app.button.playing \/ app.nextInterval <= MaxTimerStarts
    /\ called' = "startTimer"
    /\ arg' = String(SessionName)
    /\ app' = startTimer(Handling(app))
    /\ returned' = Undefined
    /\ UNCHANGED Unused

\* The browser runs the callback of one of the intervals it holds.
Tick ==
    \E timer \in DOMAIN app.intervals :
        /\ called' = "setInterval"
        /\ arg' = Number(timer)
        /\ app' = IntervalCallback(Handling(app), timer)
        /\ returned' = Undefined
        /\ UNCHANGED Unused

Next ==
    \/ CalculateMoodInsights
    \/ AnalyzeHabitPatterns
    \/ AnalyzeStudyPerformance
    \/ GenerateRecommendations
    \/ ExportReportCSV

NextMood == CalculateMoodInsights

NextHabit == AnalyzeHabitPatterns

NextStudy == AnalyzeStudyPerformance

NextReport == CreateWellnessReport

NextConcurrent ==
    \/ BeginReport
    \/ ResumeReport

NextHabits ==
    \/ IncrementHabit
    \/ DecrementHabit
    \/ AddNewHabit

NextTimer ==
    \/ StartTimer
    \/ Tick

NextExport ==
    \/ ExportReportJSON
    \/ ExportReportCSV

Spec == Init /\ [][Next]_vars

SpecMood == InitMood /\ [][NextMood]_vars

SpecReorder == InitReorder /\ [][NextMood]_vars

SpecHabit == InitHabit /\ [][NextHabit]_vars

SpecStudy == InitStudy /\ [][NextStudy]_vars

SpecSubjects == InitSubjects /\ [][NextStudy]_vars

SpecConcurrent == InitConcurrent /\ [][NextConcurrent]_vars

SpecHabits == InitPage /\ [][NextHabits]_vars

SpecTimer == InitPage /\ [][NextTimer]_vars

SpecReport == InitReport /\ [][NextReport]_vars

SpecExport == InitReport /\ [][NextExport]_vars
(***************************************************************************)
(* Properties of calculateMoodInsights.                                    *)
(***************************************************************************)
MoodCall == called = "calculateMoodInsights" /\ ~Missing(arg)
Levels == [i \in DOMAIN arg.items |-> arg.items[i].mood_level]

\* n^2 times the covariance of index and level, and n^2 times the variance of
\* the index: their quotient is the least-squares slope.
CenteredXY(levels) ==
    LET n    == Len(levels)
        sumX == SumOver([i \in 1..n |-> i - 1], n)
        sumY == SumOver(levels, n)
    IN  SumOver([i \in 1..n |-> (n * (i - 1) - sumX) * (n * levels[i] - sumY)], n)
CenteredXX(levels) ==
    LET n    == Len(levels)
        sumX == SumOver([i \in 1..n |-> i - 1], n)
    IN  SumOver([i \in 1..n |-> (n * (i - 1) - sumX) * (n * (i - 1) - sumX)], n)

\* C5: for a mood series of at least two entries the trend is "improving"
\* exactly when the least-squares slope of mood_level against the 0-based entry
\* index exceeds 0.05, "declining" exactly when it is below -0.05, and
\* "stable" otherwise.
C5_TrendLabel ==
    (MoodCall /\ Len(arg.items) >= 2) =>
        LET sxy == CenteredXY(Levels)
            sxx == CenteredXX(Levels)
        IN  /\ returned.trend = "improving" <=> 20 * sxy > sxx
            /\ returned.trend = "declining" <=> 20 * sxy < -sxx
            /\ returned.trend = "stable" <=> (20 * sxy <= sxx /\ 20 * sxy >= -sxx)

\* A slope of 0.3 (levels 1,1,1,2): above the threshold, well below 1.
C5_Witness ==
    /\ MoodCall
    /\ Levels = <<1, 1, 1, 2>>
    /\ returned.trend = "improving"
    /\ returned.trend_slope = Number(3000)

\* C6: a series of at least two entries that all have the same mood_level v
\* yields average v, volatility 0, trend_slope 0 and trend "stable".
C6_ConstantSeries ==
    (MoodCall /\ Len(arg.items) >= 2) =>
        \A v \in MinMoodLevel..MaxMoodLevel :
            (\A i \in DOMAIN Levels : Levels[i] = v) =>
                /\ returned.average = 100 * v
                /\ returned.volatility = 0
                /\ returned.trend_slope = Number(0)
                /\ returned.trend = "stable"

C6_Witness ==
    /\ MoodCall
    /\ Levels = <<3, 3, 3, 3, 3>>
    /\ returned.average = 300
    /\ returned.trend = "stable"

\* C7: a series whose mood_level rises by exactly 1 from each entry to the
\* next, in input order, yields trend_slope 1 and trend "improving", whatever
\* the calendar dates of the entries are.
C7_UnitSlope ==
    (MoodCall /\ Len(arg.items) >= 2) =>
        ((\A i \in 1..(Len(Levels) - 1) : Levels[i + 1] = Levels[i] + 1) =>
            /\ returned.trend_slope = Number(10000)
            /\ returned.trend = "improving")

\* The series 1,2,3 recorded every other day: the slope per calendar day is
\* 0.5, the slope per entry is 1.
C7_Witness ==
    /\ MoodCall
    /\ Levels = <<1, 2, 3>>
    /\ arg.items[2].date = arg.items[1].date + 2
    /\ returned.trend_slope = Number(10000)

\* The entries of items reordered by the permutation p of its indices.
Reordered(items, p) == [i \in DOMAIN items |-> items[p[i]]]

\* C8: the average is the same for every reordering of the entries (while the
\* trend_slope is not: see the witness).
C8_AverageOrderFree ==
    (MoodCall /\ arg.items # <<>>) =>
        \A p \in Permutations(DOMAIN arg.items) :
            MoodAverage(Reordered(arg.items, p)) = returned.average

\* A series and a reordering of it whose trend_slope differs.
C8_Witness ==
    /\ MoodCall
    /\ Len(arg.items) >= 2
    /\ \E p \in Permutations(DOMAIN arg.items) :
          /\ MoodAverage(Reordered(arg.items, p)) = returned.average
          /\ TrendSlope(calculateTrend(TrendPoints(Reordered(arg.items, p))))
                # returned.trend_slope

\* The place at which a weekday first appears in the series.
FirstOn(day) ==
    CHOOSE i \in DOMAIN arg.items :
        /\ Weekday(arg.items[i].date) = day
        /\ \A j \in 1..(i - 1) : Weekday(arg.items[j].date) # day

\* C21: best_weekday is a weekday of maximal mean mood_level in
\* weekday_patterns and worst_weekday one of minimal mean; among several
\* weekdays sharing the extreme mean the one encountered first is chosen.
C21_ExtremeWeekdays ==
    (MoodCall /\ arg.items # <<>>) =>
        LET mean  == returned.weekday_patterns.val
            days  == DOMAIN mean
            top   == {d \in days : \A e \in days : ~RatLt(mean[d], mean[e])}
            low   == {d \in days : \A e \in days : ~RatGt(mean[d], mean[e])}
            best  == returned.best_weekday
            worst == returned.worst_weekday
        IN  /\ best \in top
            /\ \A d \in top : FirstOn(best) <= FirstOn(d)
            /\ worst \in low
            /\ \A d \in low : FirstOn(worst) <= FirstOn(d)

\* C22: for a series of exactly one entry the trend is "stable" and the
\* trend_slope is the number 0, never undefined or NaN.
C22_SingleEntrySlope ==
    (MoodCall /\ Len(arg.items) = 1) =>
        /\ returned.trend = "stable"
        /\ "trend_slope" \in DOMAIN returned
        /\ returned.trend_slope = Number(0)
(***************************************************************************)
(* Properties of analyzeHabitPatterns.                                     *)
(***************************************************************************)
HabitCall == called = "analyzeHabitPatterns" /\ ~Missing(arg) /\ arg.items # <<>>
Entries == arg.items
EntriesOf(name) == {i \in DOMAIN Entries : Entries[i].name = name}
NamesIn == {Entries[i].name : i \in DOMAIN Entries}
Reached(i) == Entries[i].completed >= Entries[i].target

\* Entry j comes after entry i in ascending date order, entries of one date
\* standing in input order.
After(i, j) ==
    \/ Entries[j].date > Entries[i].date
    \/ Entries[j].date = Entries[i].date /\ j > i

\* The entries of the trailing run of a habit: reached, and followed by
\* reached entries only.
TrailingRun(name) ==
    {i \in EntriesOf(name) :
        Reached(i) /\ \A j \in EntriesOf(name) : After(i, j) => Reached(j)}

\* The place of entry i among the entries of its habit in date order.
Rank(name, i) == 1 + Cardinality({j \in EntriesOf(name) : After(j, i)})

\* C2: the current streak of every habit is the length of the longest suffix
\* of its entries, in ascending date order, whose entries all have
\* completed >= target; it is 0 when the most recent entry has
\* completed < target, and 3 for the pattern T,T,F,T,T,T.
C2_CurrentStreak ==
    HabitCall =>
        \A name \in NamesIn :
            LET streak == returned.current_streaks.val[name]
            IN  /\ streak = Cardinality(TrailingRun(name))
                /\ (\E i \in EntriesOf(name) :
                        /\ \A j \in EntriesOf(name) : ~After(i, j)
                        /\ ~Reached(i)) => streak = 0
                /\ (/\ Cardinality(EntriesOf(name)) = 6
                    /\ \A i \in EntriesOf(name) : Reached(i) <=> Rank(name, i) # 3)
                        => streak = 3

C2_Witness ==
    /\ HabitCall
    /\ Cardinality(EntriesOf("Hydration")) = 6
    /\ \A i \in EntriesOf("Hydration") : Reached(i) <=> Rank("Hydration", i) # 3
    /\ ~Reached(Len(Entries))
    /\ returned.current_streaks.val["Hydration"] = 3

\* C3: for a non-empty series overall_completion_rate is the sum of completed
\* over the sum of target rounded to 3 decimals, 0 when the sum of target is
\* 0, and within [0,1] when every entry has 0 <= completed <= target.
C3_OverallCompletion ==
    HabitCall =>
        LET n == Len(Entries)
            c == SumOver([i \in 1..n |-> Entries[i].completed], n)
            t == SumOver([i \in 1..n |-> Entries[i].target], n)
            r == returned.overall_completion_rate
        IN  /\ t = 0 => r = 0
            /\ t > 0 => (2 * r * t - t <= 2000 * c /\ 2000 * c < 2 * r * t + t)
            /\ (\A i \in 1..n : 0 <= Entries[i].completed
                                 /\ Entries[i].completed <= Entries[i].target)
                  => (0 <= r /\ r <= 1000)

\* 7 of 12 completed: 0.58333... rounded to 0.583.
C3_Witness ==
    /\ HabitCall
    /\ SumOver([i \in DOMAIN Entries |-> Entries[i].completed], Len(Entries)) = 7
    /\ SumOver([i \in DOMAIN Entries |-> Entries[i].target], Len(Entries)) = 12
    /\ returned.overall_completion_rate = 583

NoRepeat(keys) == \A i, j \in DOMAIN keys : keys[i] = keys[j] => i = j

\* C4: the keys of the per-habit completion rates and of the streaks are
\* exactly the distinct habit names of the input, and the rate of a habit is
\* the share of its entries with completed >= target, rounded to 3 decimals.
C4_GroupedByName ==
    HabitCall =>
        LET rates   == returned.individual_completion_rates
            streaks == returned.current_streaks
        IN  /\ SeqToSet(rates.keys) = NamesIn /\ NoRepeat(rates.keys)
            /\ DOMAIN rates.val = NamesIn
            /\ SeqToSet(streaks.keys) = NamesIn /\ NoRepeat(streaks.keys)
            /\ DOMAIN streaks.val = NamesIn
            /\ \A name \in NamesIn :
                  LET all  == Cardinality(EntriesOf(name))
                      done == Cardinality({i \in EntriesOf(name) : Reached(i)})
                      r    == rates.val[name]
                  IN  /\ 2 * r * all - all <= 2000 * done
                      /\ 2000 * done < 2 * r * all + all

\* Two habits, one at 2 of 3 (0.667) and one at 3 of 3.
C4_Witness ==
    /\ HabitCall
    /\ NamesIn = {"Hydration", "Mindfulness"}
    /\ returned.individual_completion_rates.val["Hydration"] = 667
    /\ returned.individual_completion_rates.val["Mindfulness"] = 1000

\* The place at which a habit first appears in the input.
FirstEntry(name) == CHOOSE i \in EntriesOf(name) : \A j \in EntriesOf(name) : i <= j

\* C20: most_consistent_habit is a habit of maximal per-habit completion_rate
\* and needs_attention one of minimal rate; among several habits sharing the
\* extreme rate the one that appears first in the input is chosen.
C20_ExtremeHabits ==
    HabitCall =>
        LET rate == returned.individual_completion_rates.val
            top  == {n \in NamesIn : \A m \in NamesIn : rate[n] >= rate[m]}
            low  == {n \in NamesIn : \A m \in NamesIn : rate[n] <= rate[m]}
            most == returned.most_consistent_habit
            poor == returned.needs_attention
        IN  /\ most \in top
            /\ \A n \in top : FirstEntry(most) <= FirstEntry(n)
            /\ poor \in low
            /\ \A n \in low : FirstEntry(poor) <= FirstEntry(n)
(***************************************************************************)
(* Properties of analyzeStudyPerformance.                                  *)
(***************************************************************************)
StudyCall == called = "analyzeStudyPerformance" /\ ~Missing(arg) /\ arg.items # <<>>
EmptyArg == Missing(arg) \/ arg.items = <<>>
Sessions == arg.items
SessionsAt(hour) == {i \in DOMAIN Sessions : Sessions[i].hour = hour}
CompletedAt(hour) == {i \in SessionsAt(hour) : Sessions[i].completed}
HoursIn == {Sessions[i].hour : i \in DOMAIN Sessions}

\* completed/sessions of hour g is at least that of hour h.
RatioAtLeast(g, h) ==
    Cardinality(CompletedAt(g)) * Cardinality(SessionsAt(h))
        >= Cardinality(CompletedAt(h)) * Cardinality(SessionsAt(g))

\* C16: for an empty study series analyzeStudyPerformance returns the summary
\* total_sessions 0, total_minutes 0, avg_duration 0, completion_rate 0 with
\* a best_study_hour that is present and null.
C16_EmptyStudySummary ==
    (called = "analyzeStudyPerformance" /\ EmptyArg) =>
        /\ returned.total_sessions = 0
        /\ returned.avg_duration = 0
        /\ "total_minutes" \in DOMAIN returned /\ returned.total_minutes = 0
        /\ "completion_rate" \in DOMAIN returned /\ returned.completion_rate = 0
        /\ "best_study_hour" \in DOMAIN returned /\ returned.best_study_hour = Null

\* C19: for a non-empty study series best_study_hour is an hour with at
\* least one session whose completed/sessions ratio is maximal over the hours
\* of the series, the lowest such hour; also when no session is completed.
C19_BestStudyHour ==
    StudyCall =>
        LET best == returned.best_study_hour
        IN  /\ best # Null
            /\ best.val \in HoursIn
            /\ \A h \in HoursIn : RatioAtLeast(best.val, h)
            /\ \A h \in HoursIn : RatioAtLeast(h, best.val) => best.val <= h

\* The sum of a field over the buckets of a keyed map.
OverBuckets(map, field) ==
    SumOver([k \in DOMAIN map.keys |-> map.val[map.keys[k]][field]], Len(map.keys))

\* Every session falls in exactly one bucket of the map: the buckets' counts
\* add up to the totals of the series and no bucket has more completed
\* sessions than sessions.
Partitioned(map) ==
    /\ OverBuckets(map, "sessions") = Len(Sessions)
    /\ OverBuckets(map, "totalDuration") =
          SumOver([i \in DOMAIN Sessions |-> Sessions[i].duration_minutes],
                  Len(Sessions))
    /\ OverBuckets(map, "completed") =
          Cardinality({i \in DOMAIN Sessions : Sessions[i].completed})
    /\ \A k \in DOMAIN map.keys :
          /\ map.val[map.keys[k]].completed <= map.val[map.keys[k]].sessions
          /\ \A j \in DOMAIN map.keys : map.keys[j] = map.keys[k] => j = k

\* C24: for a non-empty study series total_sessions is the number of sessions
\* and total_minutes the sum of duration_minutes; the hour buckets and the
\* subject buckets each partition the sessions (sessions, totalDuration and
\* completed add up to the totals; completed <= sessions in every bucket).
C24_BucketsPartition ==
    StudyCall =>
        /\ returned.total_sessions = Len(Sessions)
        /\ returned.total_minutes =
              SumOver([i \in DOMAIN Sessions |-> Sessions[i].duration_minutes],
                      Len(Sessions))
        /\ SeqToSet(returned.hourly_patterns.keys) = HoursIn
        /\ Partitioned(returned.hourly_patterns)
        /\ SeqToSet(returned.subject_performance.keys) =
              {Sessions[i].subject : i \in DOMAIN Sessions}
        /\ Partitioned(returned.subject_performance)

\* Three sessions, two subjects at two hours, the subject buckets cutting
\* across the hour buckets, one session left unfinished.
C24_Witness ==
    /\ StudyCall
    /\ Sessions = <<Session("Physics", 74, TRUE, 9),
                    Session("Mathematics", 15, FALSE, 9),
                    Session("Physics", 15, TRUE, 14)>>
    /\ returned.total_minutes = 104
    /\ returned.hourly_patterns.val[9] =
          [sessions |-> 2, completed |-> 1, totalDuration |-> 89]
    /\ returned.subject_performance.val["Physics"] =
          [sessions |-> 2, completed |-> 2, totalDuration |-> 89]
(***************************************************************************)
(* Properties of the engine on empty series, of generateRecommendations    *)
(* and of exportReportCSV.                                                 *)
(***************************************************************************)
\* C1: for an empty or missing series calculateMoodInsights,
\* analyzeHabitPatterns and analyzeStudyPerformance return their neutral
\* result (mood: average 0, trend "no_data"; habits: completion_rate 0 with
\* empty streaks and patterns), and generateRecommendations of the three
\* neutral results returns the empty list.
C1_EmptySeries ==
    /\ (called = "calculateMoodInsights" /\ EmptyArg) =>
          /\ returned.average = 0
          /\ returned.trend = "no_data"
    /\ (called = "analyzeHabitPatterns" /\ EmptyArg) =>
          /\ returned.completion_rate = 0
          /\ returned.streaks.keys = <<>>
          /\ returned.patterns.keys = <<>>
    /\ (called = "analyzeStudyPerformance" /\ EmptyArg) =>
          /\ returned.total_sessions = 0
          /\ returned.avg_duration = 0
    /\ (/\ called = "generateRecommendations"
        /\ arg.mood = calculateMoodInsights(Array(<<>>))
        /\ arg.habits = analyzeHabitPatterns(Array(<<>>))
        /\ arg.study = analyzeStudyPerformance(Array(<<>>))) =>
          returned = <<>>

C1_Witness ==
    /\ moodData = <<>> /\ habitData = <<>> /\ studyData = <<>>
    /\ called = "generateRecommendations"
    /\ Present(arg.mood) /\ Present(arg.habits) /\ Present(arg.study)
    /\ arg.mood.trend = "no_data"
    /\ arg.habits.completion_rate = 0
    /\ arg.study.total_sessions = 0
    /\ returned = <<>>

\* A hour is set when the field is there and holds an hour, not null.
HourSet(study) == "best_study_hour" \in DOMAIN study /\ study.best_study_hour # Null

\* The message of a rule when its condition holds, nothing otherwise.
When(condition, message) == IF condition THEN <<message>> ELSE <<>>

\* C9: generateRecommendations returns one message per rule whose condition
\* holds, in the order declining mood, volatility > 1.5, habit completion
\* < 0.7, habit needing attention, study scheduling (best_study_hour set and
\* completion_rate < 0.8); no rule suppresses another, the list has at most
\* 5 entries, and a null section contributes nothing.
C9_OneMessagePerRule ==
    called = "generateRecommendations" =>
        LET mood   == arg.mood
            habits == arg.habits
            study  == arg.study
        IN  /\ returned =
                  When(mood # Null /\ mood.trend = "declining",
                       "Your mood has been declining recently. Consider incorporating more mindfulness practices or reaching out for support.")
                  \o When(mood # Null /\ mood.volatility > 150,
                          "Your mood shows high variability. Maintaining consistent sleep and exercise routines may help stabilize your emotional well-being.")
                  \o When(habits # Null /\ "overall_completion_rate" \in DOMAIN habits
                              /\ habits.overall_completion_rate < 700,
                          "Your habit completion rate is below 70%. Consider reducing the number of habits or making them smaller and more achievable.")
                  \o When(habits # Null /\ "needs_attention" \in DOMAIN habits,
                          "Your '" \o habits.needs_attention \o "' habit needs attention. Consider pairing it with an existing strong habit or adjusting the difficulty.")
                  \o When(study # Null /\ HourSet(study)
                              /\ study.completion_rate < 800,
                          "You perform best during " \o ToString(study.best_study_hour.val) \o ":00. Try scheduling more important study sessions during this time.")
            /\ Len(returned) <= 5

\* C10: the CSV export ends with one row per recommendation, in the order of
\* report.recommendations, numbered from 1, of the form
\* recommendation_<k>,"<text>",recommendations; no other row is a
\* recommendation row; the single recommendation "Drink more water" gives
\* the row recommendation_1,"Drink more water",recommendations.
IsRecommendationRow(row) ==
    Len(row) >= 15 /\ SubSeq(row, 1, 15) = "recommendation_"

C10_RecommendationRows ==
    called = "exportReportCSV" =>
        LET recs  == arg.report.recommendations
            first == Len(rows) - Len(recs)
        IN  /\ first >= 1
            /\ \A k \in 1..Len(recs) :
                  rows[first + k] = "recommendation_" \o ToString(k) \o ",\""
                                        \o recs[k] \o "\",recommendations"
            /\ Cardinality({i \in DOMAIN rows : IsRecommendationRow(rows[i])})
                  = Len(recs)
            /\ recs = <<"Drink more water">> =>
                  rows[Len(rows)]
                      = "recommendation_1,\"Drink more water\",recommendations"
            /\ returned.state = "fulfilled" => file.content = Join(rows)

C10_Witness ==
    /\ called = "exportReportCSV"
    /\ arg.report.recommendations = <<"Drink more water">>
    /\ rows[Len(rows)] = "recommendation_1,\"Drink more water\",recommendations"
    /\ returned.state = "fulfilled"

\* Reading one CSV record (RFC 4180).  A field is bare or enclosed in double
\* quotes; inside quotes a doubled quote stands for a quote and a comma is
\* data.  The reader is at the start of a field, in a bare field, in a quoted
\* field, just after a quote met in a quoted field, or has found the record
\* malformed.
CsvReaderStates == {"start", "bare", "quoted", "closed", "bad"}

CsvRead(at, c) ==
    CASE at = "start"  -> IF c = "\"" THEN "quoted" ELSE IF c = "," THEN "start" ELSE "bare"
      [] at = "bare"   -> IF c = "," THEN "start" ELSE IF c = "\"" THEN "bad" ELSE "bare"
      [] at = "quoted" -> IF c = "\"" THEN "closed" ELSE "quoted"
      [] at = "closed" -> IF c = "\"" THEN "quoted" ELSE IF c = "," THEN "start" ELSE "bad"
      [] at = "bad"    -> "bad"

\* For each state of the reader before place lo: its state after place hi and
\* the number of fields it closed in between.
RECURSIVE CsvScan(_, _, _)
CsvScan(row, lo, hi) ==
    IF lo = hi
    THEN LET c == SubSeq(row, lo, lo)
         IN  [at \in CsvReaderStates |->
                 [at |-> CsvRead(at, c),
                  n  |-> IF c = "," /\ at \in {"start", "bare", "closed"} THEN 1 ELSE 0]]
    ELSE LET mid   == (lo + hi) \div 2
             left  == CsvScan(row, lo, mid)
             right == CsvScan(row, mid + 1, hi)
         IN  [at \in CsvReaderStates |->
                 [at |-> right[left[at].at].at,
                  n  |-> left[at].n + right[left[at].at].n]]

\* The number of fields of a record, 0 when it is malformed.
CsvFieldCount(row) ==
    IF row = "" THEN 1
    ELSE LET end == CsvScan(row, 1, Len(row))["start"]
         IN  IF end.at \in {"quoted", "bad"} THEN 0 ELSE end.n + 1

\* C11: every row of the CSV export reads back as exactly three fields
\* (metric, value, category), also for reports whose habit names or
\* recommendation texts contain commas or double quotes.
C11_ThreeFields ==
    called = "exportReportCSV" =>
        \A i \in DOMAIN rows : CsvFieldCount(rows[i]) = 3

\* C12: for every report the engine produces, also from a single mood entry
\* or from empty series, reading back the JSON text exportReportJSON wrote
\* gives a value equal to the report.
C12_JsonRoundTrip ==
    (called = "exportReportJSON" /\ returned.state = "fulfilled") =>
        JsonParse(file.content) = arg.report

\* C13: when the write fails, exportReportJSON and exportReportCSV reject
\* with the write error and leave no file; when it succeeds they return the
\* path written, which is the caller's path when one was given.
C13_ExportOutcome ==
    called \in {"exportReportJSON", "exportReportCSV"} =>
        /\ thrown # Null => (returned = Rejected(thrown) /\ file = Null)
        /\ thrown = Null =>
              /\ returned.state = "fulfilled"
              /\ file # Null
              /\ returned.value = file.path
              /\ arg.outputPath # Null => returned.value = arg.outputPath.val

C13_Witness ==
    /\ called = "exportReportJSON"
    /\ arg.outputPath = String("out/report.json")
    /\ thrown = Error("ENOSPC: no space left on device")
    /\ returned = Rejected(thrown)
    /\ file = Null
(***************************************************************************)
(* Properties of createWellnessReport.                                     *)
(***************************************************************************)
ReportCall == called = "createWellnessReport" /\ returned.state = "fulfilled"

\* C14: when the data source fails to supply the series, createWellnessReport
\* rejects with that same error and returns no report.
C14_UpstreamFailure ==
    called = "createWellnessReport" =>
        /\ thrown # Null => returned = Rejected(thrown)
        /\ returned.state = "fulfilled" => thrown = Null

C14_Witness ==
    /\ called = "createWellnessReport"
    /\ thrown = Error("ECONNREFUSED: data source unavailable")
    /\ returned.state = "rejected"
    /\ returned.reason = thrown
    /\ previous # Null

C17_DataQuality ==
    ReportCall =>
        LET report == returned.value
        IN  /\ report.insights.mood = calculateMoodInsights(Array(moodData))
            /\ report.insights.habits = analyzeHabitPatterns(Array(habitData))
            /\ report.insights.study = analyzeStudyPerformance(Array(studyData))
            /\ report.data_quality.mood_entries = Len(moodData)
            /\ report.data_quality.habit_entries = Len(habitData)
            /\ report.data_quality.study_entries = Len(studyData)
            /\ studyData # <<>> =>
                  report.insights.study.total_sessions = report.data_quality.study_entries
            /\ arg.days = Undefined => report.analysis_period.days = 30
            /\ arg.days # Undefined => report.analysis_period.days = arg.days.val

\* A report of series of 2, 1 and 3 entries with the default window.
C17_Witness ==
    /\ ReportCall
    /\ arg.days = Undefined
    /\ returned.value.analysis_period.days = 30
    /\ returned.value.data_quality
          = [mood_entries |-> 2, habit_entries |-> 1, study_entries |-> 3,
             period_entries |-> 0]

\* C18: whenever the study insight has a best_study_hour set (any hour 0..23,
\* hour 0 included) and a completion_rate below 0.8, generateRecommendations
\* emits the scheduling suggestion naming that hour.
C18_SchedulingSuggestion ==
    (/\ called = "generateRecommendations"
     /\ arg.study # Null
     /\ HourSet(arg.study)
     /\ arg.study.best_study_hour.val \in 0..23
     /\ arg.study.completion_rate < 800) =>
        \E i \in DOMAIN returned :
            returned[i] = "You perform best during "
                              \o ToString(arg.study.best_study_hour.val)
                              \o ":00. Try scheduling more important study sessions during this time."

\* C25: for a non-empty habit series needs_attention is set (to a habit of
\* the series), so generateRecommendations emits the suggestion naming it,
\* also when every habit has rate 1; with a single habit
\* most_consistent_habit and needs_attention name the same habit.
C25_NeedsAttentionSet ==
    /\ HabitCall =>
          /\ "needs_attention" \in DOMAIN returned
          /\ returned.needs_attention \in NamesIn
          /\ Cardinality(NamesIn) = 1 =>
                returned.most_consistent_habit = returned.needs_attention
    /\ (called = "generateRecommendations" /\ Present(arg.habits)
          /\ habitData # <<>>) =>
          /\ "needs_attention" \in DOMAIN arg.habits
          /\ \E i \in DOMAIN returned :
                returned[i] = MsgAttention(arg.habits.needs_attention)

\* The suggestion for the only habit of a series, whose rate is 1.
C25_Witness ==
    /\ called = "generateRecommendations"
    /\ Present(arg.habits)
    /\ habitData = HabitDays("Movement", <<<<1, 1>>>>)
    /\ arg.habits.individual_completion_rates.val["Movement"] = 1000
    /\ arg.habits.most_consistent_habit = "Movement"
    /\ arg.habits.needs_attention = "Movement"
    /\ \E i \in DOMAIN returned : returned[i] = MsgAttention("Movement")

ReportBody(outcome) ==
    IF outcome.state = "rejected" THEN outcome
    ELSE [user_id         |-> outcome.value.user_id,
          insights        |-> outcome.value.insights,
          recommendations |-> outcome.value.recommendations,
          data_quality    |-> outcome.value.data_quality]

\* The outcome of createWellnessReport for a user whose series are `loading`,
\* on an analyzer on which nothing else runs.
Alone(userId, daysArg, loading) ==
    LET insights == [mood   |-> calculateMoodInsights(Array(loading.value.mood)),
                     habits |-> analyzeHabitPatterns(Array(loading.value.habits)),
                     study  |-> analyzeStudyPerformance(Array(loading.value.study))]
    IN  IF loading.state = "rejected" THEN Rejected(loading.reason)
        ELSE [user_id         |-> userId,
              insights        |-> insights,
              recommendations |-> generateRecommendations(insights),
              data_quality    |-> [mood_entries   |-> Len(loading.value.mood),
                                   habit_entries  |-> Len(loading.value.habits),
                                   study_entries  |-> Len(loading.value.study),
                                   period_entries |-> 0]]

WithinTarget(page) ==
    \A id \in SeqToSet(page.habits.keys) :
        /\ 0 <= page.habits.val[id].completed
        /\ page.habits.val[id].completed <= page.habits.val[id].target

\* One call of incrementHabit, decrementHabit or addNewHabit: the habits are
\* within their targets after it; incrementHabit on a habit at its target,
\* decrementHabit on a habit at 0 and either of them on an id that is no
\* habit's leave every habit as it was.
HabitStep ==
    /\ WithinTarget(app')
    /\ called' \in {"incrementHabit", "decrementHabit"} =>
          LET habitId == arg'.val
              known   == MapHas(app.habits, habitId)
              habit   == app.habits.val[habitId]
              atLimit == IF called' = "incrementHabit"
                         THEN habit.completed = habit.target
                         ELSE habit.completed = 0
          IN  /\ ~known => app'.habits = app.habits
              /\ (known /\ atLimit) => app'.habits = app.habits
              /\ (known /\ ~atLimit) =>
                    /\ app'.habits.val[habitId].completed =
                          habit.completed + (IF called' = "incrementHabit" THEN 1 ELSE -1)
                    /\ \A id \in SeqToSet(app.habits.keys) \ {habitId} :
                          app'.habits.val[id] = app.habits.val[id]

\* C27: from the default habits and after any sequence of incrementHabit,
\* decrementHabit and addNewHabit every habit has 0 <= completed <= target;
\* incrementHabit at completed = target and decrementHabit at completed = 0
\* leave the habit unchanged, and a call on an unknown id changes nothing.
C27_HabitsWithinTarget == WithinTarget(app) /\ [][HabitStep]_vars

\* incrementHabit called on a habit at its target, added by addNewHabit and
\* completed before: updateHabitDisplay was not called.
C27_Witness ==
    /\ called = "incrementHabit"
    /\ arg = String("deep_work")
    /\ MapHas(app.habits, "deep_work")
    /\ app.habits.val["deep_work"].completed = app.habits.val["deep_work"].target
    /\ app.habits.val["hydration"].completed = 8
    /\ app.displayed = Null

\* The number of today's completed sessions of the session item.
StudyCount(page) ==
    LET studyStats == page.localStorage.bloomwell_study
    IN  IF MapHas(studyStats, TodayString)
              /\ MapHas(studyStats.val[TodayString], SessionName)
        THEN studyStats.val[TodayString].val[SessionName]
        ELSE 0

\* The name is registered exactly while the button is playing, under the
\* handle of the only interval; no interval runs while it is not.
TimerRegistered(page) ==
    /\ MapHas(page.timers, SessionName) <=> page.button.playing
    /\ Cardinality(DOMAIN page.intervals) <= 1
    /\ page.button.playing =>
          DOMAIN page.intervals = {page.timers.val[SessionName]}
    /\ ~page.button.playing => DOMAIN page.intervals = {}

\* One click or one tick.  A tick that finds the countdown at zero clears the
\* interval, leaves the display at 00:00 and adds one to the study count; any
\* other tick takes one second off the display; a click leaves the display
\* and the count alone.
TimerStep ==
    /\ TimerRegistered(app')
    /\ called' = "setInterval" =>
          LET totalSeconds == app.intervals[arg'.val].totalSeconds
          IN  IF totalSeconds <= 0
              THEN /\ DOMAIN app'.intervals = {}
                   /\ ~app'.button.playing
                   /\ app'.display = "00:00"
                   /\ StudyCount(app') = StudyCount(app) + 1
              ELSE /\ app.button.playing
                   /\ TimeOf(app'.display).minutes * 60 + TimeOf(app'.display).seconds
                         = totalSeconds - 1
                   /\ StudyCount(app') = StudyCount(app)
    /\ called' = "startTimer" =>
          /\ app'.display = app.display
          /\ app'.button.playing = ~app.button.playing
          /\ StudyCount(app') = StudyCount(app)

\* C28: for the one session item, under any interleaving of startTimer clicks
\* and interval ticks, the session name is registered in timers exactly while
\* the button is playing and at most one interval runs; a countdown that
\* reaches zero clears its interval, leaves the display at 00:00 and
\* increments the day's study count of the session exactly once, and no tick
\* follows the completion.
C28_TimerLifecycle == TimerRegistered(app) /\ [][TimerStep]_vars

\* A countdown paused and resumed, then completed by a tick.
C28_Witness ==
    /\ called = "setInterval"
    /\ arg = Number(2)
    /\ ~app.button.playing
    /\ app.display = "00:00"
    /\ DOMAIN app.intervals = {}
    /\ app.timers = EmptyMap
    /\ StudyCount(app) = 1
====
